---- MODULE Spec2Model ----
(***************************************************************************)
(* Transfer-orchestration pipeline of the bot (src/bot): the storage-aware *)
(* admission queue, the state store (JSON file / Redis), the completion    *)
(* monitor and the downloader.                                             *)
(*                                                                         *)
(* Storage amounts are counted in GiB units: min_free_bytes is MinFreeGb   *)
(* units and item sizes are small numbers of units.                        *)
(***************************************************************************)
EXTENDS Integers, Sequences, FiniteSets, TLC

(***************************************************************************)
(* Bounds of the model.                                                    *)
(***************************************************************************)
MaxSize == 1
MaxQueue == 2
MaxTasks == 2
MaxDeliveries == 2
MaxFileSize == 45    \* file sizes, in units of 100 MB
MaxChunk == 19       \* values of CHUNK_SIZE, in the same unit
MaxBuffer == 3       \* values of BUFFER_SIZE, in the same unit
MaxUploads == 2      \* Telethon uploads started by one executor thread
MaxSeen == 2         \* items appended to the seen list of one feed
MaxCalls == 2        \* process_item calls in the task lifecycle model
MaxPolls == 3        \* poll cycles of one RSS feed
MaxMarks == 2        \* mark_uploaded calls on one ledger

(***************************************************************************)
(* Program constants.                                                      *)
(***************************************************************************)
MinFreeGb == 20
BotApiMaxSize == 52428800     \* 50 * 1024 * 1024
MAX_TG_SIZE == 2147482624      \* 2 * 1024 * 1024 * 1024 - 1024
max_retries == 5               \* Downloader._download_file

None == "None"            \* Python None where the other values are strings
NoneItem == [none |-> TRUE]  \* Python None where the other values are dicts

VARIABLES
    sq_queue,    \* StorageAwareQueue._queue
    sq_last,     \* record of the last direct enqueue / dequeue call and its result
    store_kind,  \* which StateManager get_state() returns: "json" or "redis"
    persisted,   \* content of state.json, or of the Redis key space
    mon_data,    \* JsonFileState.data of Monitor.state
    jobs_data,   \* JsonFileState.data of jobs._state_manager
    ever_marked, \* external ids for which add_processed has returned
    acquired,    \* per external item: sink named by the acquisition command
    mon_last,    \* record of the last Monitor cycle: listing, markers before, calls
    wk,          \* per Monitor worker process: position in check_seedbox, tasks
    submitted_by, \* per torrent: the workers that called process_item for it
    wk_delivered, \* torrents whose transfer ran to the end
    active_tasks, \* _run_task calls handed to the executor, in submit order
    deliveries,  \* per (content, sink): number of uploads made
    run_last,    \* record of the last Downloader call and what it did
    task_table,  \* Downloader._active_tasks: status by task id
    call_in,     \* arguments and environment of one call of a function
    call_out,    \* what that call returned and did, once it has been made
    th,          \* per executor thread: position in the Telethon upload
    client_lock, \* telethon_uploader._client_lock: the holding thread, if any
    rss_feed,    \* the feed dict of RSSManager.feeds: seen_guids, last_check
    rss_added,   \* per feed entry: add calls a backend has accepted
    rss_now,     \* datetime.now(timezone.utc) at the RSS poller
    redis_rss,   \* RedisState: rss:item:* values and rss:status:* sets
    json_rss     \* JsonFileState.data["rss_items"]

qvars == <<sq_queue, sq_last>>
stvars == <<store_kind, persisted, mon_data, jobs_data>>
mvars == <<ever_marked, acquired, mon_last>>
wvars == <<wk, submitted_by, wk_delivered>>
pvars == <<active_tasks, deliveries, run_last, task_table>>
xvars == <<call_in, call_out, th, client_lock>>
rvars == <<rss_feed, rss_added, rss_now, redis_rss, json_rss>>
vars == <<qvars, stvars, mvars, wvars, pvars, xvars, rvars>>

(***************************************************************************)
(* StorageAwareQueue (src/bot/storage_queue.py)                            *)
(***************************************************************************)
min_free_bytes == MinFreeGb

\* What shutil.disk_usage(...).free may report at a call, or that it raised.
FreeValues == (MinFreeGb - 1) .. (MinFreeGb + MaxSize + 1)
MeasureFail == [ok |-> FALSE, free |-> 0]
Measurements == [ok : {TRUE}, free : FreeValues] \cup {MeasureFail}

ItemNames == {"a", "b"}
QueueItems == [name : ItemNames, size : 0 .. MaxSize]

\* has_space answering False when shutil.disk_usage raises.
has_space_fail_closed(meas, required_bytes) ==
    IF ~meas.ok THEN FALSE
    ELSE meas.free > (min_free_bytes + required_bytes)

has_space_ge(meas, required_bytes) ==
    IF ~meas.ok THEN TRUE
    ELSE meas.free >= (min_free_bytes + required_bytes)

has_space(meas, required_bytes) ==
    IF ~meas.ok THEN TRUE
    ELSE meas.free > (min_free_bytes + required_bytes)

\* enqueue(item): the value returned (True = queued) and the list afterwards.
enqueue_ret(q, item, meas) == ~has_space(meas, item.size)

enqueue_queue(q, item, meas) ==
    IF has_space(meas, item.size) THEN q ELSE Append(q, item)

\* The index dequeue pops: the loop "for i, item in enumerate(self._queue)"
\* with has_space measured anew at every iteration (ms[i] at item i).
\* 0 stands for "return None".
RECURSIVE dequeue_scan(_, _, _)
dequeue_scan(q, ms, i) ==
    IF i > Len(q) THEN 0
    ELSE IF has_space(ms[i], q[i].size) THEN i
    ELSE dequeue_scan(q, ms, i + 1)

dequeue_index_head(q, ms) ==
    IF q = << >> THEN 0
    ELSE IF \E i \in 1 .. Len(q) : has_space(ms[i], q[i].size) THEN 1 ELSE 0

dequeue_index(q, ms) ==
    IF q = << >> THEN 0 ELSE dequeue_scan(q, ms, 1)

RemoveAt(q, i) == [j \in 1 .. (Len(q) - 1) |-> IF j < i THEN q[j] ELSE q[j + 1]]

dequeue_ret(q, ms) ==
    IF dequeue_index(q, ms) = 0 THEN NoneItem ELSE q[dequeue_index(q, ms)]

dequeue_queue(q, ms) ==
    IF dequeue_index(q, ms) = 0 THEN q ELSE RemoveAt(q, dequeue_index(q, ms))


NoCall == [op |-> "none"]

(***************************************************************************)
(* StateManager (src/bot/state.py): JsonFileState and RedisState           *)
(***************************************************************************)
Sinks == {"telegram", "gdrive"}
Hashes == {"h1", "h2"}
RDIds == {"t1", "t2"}
JobIds == {"j1"}

\* os.getenv('RSS_UPLOAD_DEST', 'gdrive') with the variable unset.
RssUploadDest == "gdrive"

\* Python dicts as sets of <<key, value>> pairs with one pair per key.
dict_set(d, k, v) == {p \in d : p[1] # k} \cup {<<k, v>>}
dict_get(d, k) ==
    IF \E p \in d : p[1] = k THEN (CHOOSE p \in d : p[1] = k)[2] ELSE None
dict_keys(d) == {p[1] : p \in d}

\* JsonFileState.__init__: the default self.data (the keys used by the
\* operations modelled here).
EmptyData ==
    [seen |-> {}, jobs |-> {}, processed |-> {}, intents |-> {},
     uploads |-> {}]
NoFile == [nofile |-> TRUE]

\* A _load that leaves the defaults as they are.
json_load_defaults(file) == EmptyData

\* JsonFileState._load: self.data.update(loaded) over the defaults.
json_load(file) ==
    IF file = NoFile THEN EmptyData
    ELSE [k \in DOMAIN EmptyData |->
            IF k \in DOMAIN file THEN file[k] ELSE EmptyData[k]]

\* JsonFileState._save: the whole file is replaced by this handle's data.
json_save(data) == data

add_processed(data, item_id) ==
    [data EXCEPT !.processed = @ \cup {item_id}]
is_processed(data, item_id) == item_id \in data.processed
set_intent(data, item_id, dest) ==
    [data EXCEPT !.intents = dict_set(@, item_id, dest)]
get_intent(data, item_id) == dict_get(data.intents, item_id)
set_job(data, job_id, status) ==
    [data EXCEPT !.jobs = dict_set(@, job_id, status)]

\* What a read through Monitor.state / jobs._state_manager sees.
MonitorView == IF store_kind = "redis" THEN persisted ELSE mon_data
JobsView == IF store_kind = "redis" THEN persisted ELSE jobs_data

\* A write of `data` (the handle's data after the update) through a
\* long-lived handle: Redis updates the shared key space, JsonFileState
\* keeps the data in the handle and rewrites the file from it.
MonitorWrites(data) ==
    /\ persisted' = data
    /\ mon_data' = IF store_kind = "redis" THEN mon_data ELSE data
    /\ UNCHANGED <<store_kind, jobs_data>>

JobsWrites(data) ==
    /\ persisted' = data
    /\ jobs_data' = IF store_kind = "redis" THEN jobs_data ELSE data
    /\ UNCHANGED <<store_kind, mon_data>>

\* get_state().set_intent(...) in a command handler: a new handle is built
\* (JsonFileState loads the file), updated and saved.
FreshHandleSetIntent(item_id, dest) ==
    /\ persisted' = json_save(set_intent(json_load(persisted), item_id, dest))
    /\ UNCHANGED <<store_kind, mon_data, jobs_data>>

IdleStore ==
    /\ store_kind = "json"
    /\ persisted = NoFile
    /\ mon_data = EmptyData
    /\ jobs_data = EmptyData

InitStore ==
    /\ store_kind \in {"json", "redis"}
    /\ persisted = IF store_kind = "redis" THEN EmptyData ELSE NoFile
    /\ mon_data = EmptyData
    /\ jobs_data = EmptyData

(***************************************************************************)
(* Two Monitor workers on one Redis store; the Downloader pipeline         *)
(***************************************************************************)
Workers == {"w1", "w2"}
WorkerIdle == [pc |-> "idle", idx |-> 1, tasks |-> {}]

IdleWorkers ==
    /\ wk = [w \in Workers |-> WorkerIdle]
    /\ submitted_by = [h \in Hashes |-> {}]
    /\ wk_delivered = {}

NoRun == [op |-> "none"]

IdlePipeline ==
    /\ active_tasks = << >>
    /\ deliveries = {}
    /\ run_last = NoRun
    /\ task_table = {}

Threads == {"th1", "th2"}
ThreadIdle == [pc |-> "idle", uploads |-> 0, result |-> None]
NoLockHolder == "nobody"
NotCalled == [called |-> FALSE]

IdleCalls ==
    /\ call_in = NotCalled
    /\ call_out = NotCalled
    /\ th = [t \in Threads |-> ThreadIdle]
    /\ client_lock = NoLockHolder

\* No feed is polled.
NoFeed == [url |-> "none"]
NoRssItems == [items |-> {}, status |-> {}]
IdleRssItems ==
    /\ redis_rss = NoRssItems
    /\ json_rss = {}
IdleRss ==
    /\ rss_feed = NoFeed
    /\ rss_added = {}
    /\ rss_now = 1
    /\ IdleRssItems

(***************************************************************************)
(* Monitor (src/bot/monitor.py) with the seedbox client                    *)
(***************************************************************************)
\* f"sb_{shash}" / f"rd_{tid}" in the Monitor, f"sb:{thash}" / f"rd:{tid}" in
\* the command handlers of main_bot.py: a key is <<backend, separator, id>>.
monitor_key(backend, id) == <<backend, "_", id>>
handler_key(backend, id) == <<backend, ":", id>>
NoCycle == [op |-> "none"]

IdleMonitor ==
    /\ ever_marked = {}
    /\ acquired = {}
    /\ mon_last = NoCycle

\* Paths and urls are sequences of pieces; the empty sequence is "".
EmptyStr == << >>

\* Rows of d.multicall2 for one torrent h: a torrent of size MaxSize that is
\* done (seeding, paused, or seeding without a base_path), paused with
\* bytes_done > size, or not started.
Absent == [absent |-> TRUE]
SbRow(h, act, sz, done, bp) ==
    [hash |-> h, name |-> <<"name", h>>, active |-> act,
     size |-> sz, bytes_done |-> done, base_path |-> bp]
SbRows(h) ==
    {SbRow(h, TRUE,  MaxSize, MaxSize,     <<"/home", h>>),
     SbRow(h, FALSE, MaxSize, MaxSize,     <<"/home", h>>),
     SbRow(h, TRUE,  MaxSize, MaxSize,     EmptyStr),
     SbRow(h, FALSE, MaxSize, MaxSize + 1, <<"/home", h>>),
     SbRow(h, TRUE,  MaxSize, 0,           <<"/home", h>>)}

\* The listings the seedbox may return: each torrent absent or present with
\* one of its rows, in the order of the main view.
HashOrder == <<"h1", "h2">>
SbViews == [Hashes -> {Absent} \cup UNION {SbRows(h) : h \in Hashes}]
SbListing(view) ==
    LET present(h) == view[h] # Absent
    IN  [i \in 1 .. Cardinality({h \in Hashes : present(h)}) |->
            IF Cardinality({h \in Hashes : present(h)}) = Len(HashOrder)
            THEN view[HashOrder[i]]
            ELSE view[CHOOSE h \in Hashes : present(h)]]
WellFormedView(view) ==
    \A h \in Hashes : view[h] # Absent => view[h].hash = h

\* SeedboxClient.list_torrents: the 'state' field added to a row.
sb_state(r) ==
    IF ~r.active THEN "paused"
    ELSE IF r.bytes_done >= r.size /\ r.size > 0 THEN "seeding"
    ELSE "downloading"

list_torrents(rows) ==
    [i \in 1 .. Len(rows) |->
        [name |-> rows[i].name, hash |-> rows[i].hash,
         active |-> rows[i].active, size |-> rows[i].size,
         bytes_done |-> rows[i].bytes_done,
         base_path |-> rows[i].base_path, state |-> sb_state(rows[i])]]

sb_complete_ge(t) == t.size > 0 /\ t.bytes_done >= t.size

\* The completion test of check_seedbox.
sb_complete(t) ==
    t.state = "seeding" \/ (t.size > 0 /\ t.bytes_done = t.size)

intent_or_default(data, key) ==
    IF get_intent(data, key) = None THEN "telegram" ELSE get_intent(data, key)

\* The for loop of check_seedbox from torrent i on; acc carries the data
\* seen through Monitor.state and the process_item calls made so far.
RECURSIVE check_seedbox_loop(_, _, _)
check_seedbox_loop(torrents, i, acc) ==
    IF i > Len(torrents) THEN acc
    ELSE LET t == torrents[i]
             key == monitor_key("sb", t.hash)
         IN  IF ~sb_complete(t) THEN check_seedbox_loop(torrents, i + 1, acc)
             ELSE IF is_processed(acc.data, key)
                  THEN check_seedbox_loop(torrents, i + 1, acc)
             ELSE IF t.base_path = EmptyStr
                  THEN check_seedbox_loop(torrents, i + 1, acc)
             ELSE check_seedbox_loop(torrents, i + 1,
                    [data |-> add_processed(acc.data, key),
                     calls |-> Append(acc.calls,
                        [key |-> key,
                         url |-> <<"sftp://", t.base_path>>,
                         name |-> t.name,
                         dest |-> intent_or_default(acc.data, key),
                         chat_id |-> None,
                         size |-> t.size])])

\* One run of Monitor.check_seedbox on the listing the seedbox returns.
CheckSeedbox(rows) ==
    LET torrents == list_torrents(rows)
        res == check_seedbox_loop(torrents, 1,
                                  [data |-> MonitorView, calls |-> << >>])
    IN  /\ IF res.calls = << >>
           THEN UNCHANGED stvars
           ELSE MonitorWrites(res.data)
        /\ ever_marked' = ever_marked
                            \cup (res.data.processed \ MonitorView.processed)
        /\ mon_last' = [op |-> "check_seedbox", torrents |-> torrents,
                        before |-> MonitorView.processed,
                        calls |-> res.calls]
        /\ UNCHANGED <<qvars, wvars, pvars, xvars, acquired, rvars>>

\* main_bot.sb_torrent_gdrive: the intent is stored under f"sb:{thash}".
SbTorrentGdrive(h) ==
    /\ FreshHandleSetIntent(handler_key("sb", h), "gdrive")
    /\ acquired' = dict_set(acquired, <<"sb", h>>, "gdrive")
    /\ mon_last' = [op |-> "sb_torrent_gdrive"]
    /\ UNCHANGED <<qvars, wvars, pvars, xvars, ever_marked, rvars>>

\* main_bot._on_rss_decision for backend 'sb' and a magnet link of torrent h.
OnRssDecisionSb(h) ==
    /\ FreshHandleSetIntent(handler_key("sb", h), RssUploadDest)
    /\ acquired' = dict_set(acquired, <<"sb", h>>, RssUploadDest)
    /\ mon_last' = [op |-> "_on_rss_decision"]
    /\ UNCHANGED <<qvars, wvars, pvars, xvars, ever_marked, rvars>>

\* jobs.enqueue_ytdl: set_job through the module-level handle.
EnqueueYtdl(j) ==
    /\ j \notin dict_keys(JobsView.jobs)
    /\ JobsWrites(set_job(JobsView, j, "queued"))
    /\ mon_last' = [op |-> "enqueue_ytdl"]
    /\ UNCHANGED <<qvars, wvars, pvars, xvars, ever_marked, acquired,
                   rvars>>

\* The process is stopped and started again: every handle is rebuilt;
\* JsonFileState handles load the file.
Restart ==
    /\ mon_last # [op |-> "restart"]
    /\ mon_data' = IF store_kind = "redis" THEN mon_data
                   ELSE json_load(persisted)
    /\ jobs_data' = IF store_kind = "redis" THEN jobs_data
                    ELSE json_load(persisted)
    /\ mon_last' = [op |-> "restart"]
    /\ UNCHANGED <<qvars, wvars, pvars, xvars, store_kind, persisted, ever_marked, acquired,
                   rvars>>

InitSeedbox ==
    /\ IdleRss
    /\ sq_queue = << >>
    /\ sq_last = NoCall
    /\ InitStore
    /\ IdleMonitor
    /\ IdleWorkers
    /\ IdlePipeline
    /\ IdleCalls

NextSeedbox ==
    \/ \E view \in SbViews :
            WellFormedView(view) /\ CheckSeedbox(SbListing(view))
    \/ \E h \in Hashes : SbTorrentGdrive(h)
    \/ \E h \in Hashes : OnRssDecisionSb(h)
    \/ \E j \in JobIds : EnqueueYtdl(j)
    \/ Restart

SpecSeedbox == InitSeedbox /\ [][NextSeedbox]_vars

(***************************************************************************)
(* Monitor (src/bot/monitor.py) with the Real-Debrid client                *)
(***************************************************************************)
\* RDClient.unrestrict_link(self, link) and the keyword arguments of the call
\* self.rd.unrestrict_link(link, remote=True) made by check_realdebrid.
UnrestrictLinkParams == {"link"}
MonitorUnrestrictKwargs == {"remote"}

\* What POST /unrestrict/link answers for a hoster link.
rd_api_unrestrict(link) ==
    [download |-> <<"https://dl/", link>>, filename |-> <<"file", link>>,
     filesize |-> MaxSize]

\* A Python call of unrestrict_link: an unexpected keyword argument raises
\* TypeError before the body runs.
unrestrict_link(link, kwargs) ==
    IF kwargs \subseteq UnrestrictLinkParams
    THEN [raised |-> FALSE, value |-> rd_api_unrestrict(link)]
    ELSE [raised |-> TRUE, value |-> "TypeError"]

\* Rows of GET /torrents for torrent id t, with what GET /torrents/info/<id>
\* answers for it (its links, or a request error).
RdRow(t, status, links, info_ok) ==
    [id |-> t, filename |-> <<"name", t>>, status |-> status,
     links |-> links, info_ok |-> info_ok]
RdRows(t) ==
    {RdRow(t, "downloaded", <<<<t, "l1">>>>, TRUE),
     RdRow(t, "downloaded", <<<<t, "l1">>, <<t, "l2">>>>, TRUE),
     RdRow(t, "downloaded", << >>, FALSE),
     RdRow(t, "downloading", << >>, TRUE),
     RdRow(t, "waiting_files_selection", << >>, TRUE)}

RdOrder == <<"t1", "t2">>
RdViews == [RDIds -> {Absent} \cup UNION {RdRows(t) : t \in RDIds}]
RdWellFormed(view) == \A t \in RDIds : view[t] # Absent => view[t].id = t
RdListing(view) ==
    LET present == {t \in RDIds : view[t] # Absent}
    IN  [i \in 1 .. Cardinality(present) |->
            IF Cardinality(present) = Len(RdOrder)
            THEN view[RdOrder[i]]
            ELSE view[CHOOSE t \in RDIds : t \in present]]

\* The inner for loop of check_realdebrid over the links of torrent tid from
\* link j on; a raised exception is logged and the loop goes on.
RECURSIVE check_realdebrid_links(_, _, _, _)
check_realdebrid_links(links, j, tid, acc) ==
    IF j > Len(links) THEN acc
    ELSE LET unrestricted == unrestrict_link(links[j], MonitorUnrestrictKwargs)
             tried == Append(acc.tried, [link |-> links[j],
                                         raised |-> unrestricted.raised])
         IN  IF unrestricted.raised
             THEN check_realdebrid_links(links, j + 1, tid,
                                         [acc EXCEPT !.tried = tried])
             ELSE check_realdebrid_links(links, j + 1, tid,
                    [acc EXCEPT
                       !.tried = tried,
                       !.calls = Append(@,
                          [key |-> monitor_key("rd", tid),
                           url |-> unrestricted.value.download,
                           name |-> unrestricted.value.filename,
                           dest |-> intent_or_default(acc.data,
                                        monitor_key("rd", tid)),
                           chat_id |-> None,
                           size |-> unrestricted.value.filesize])])

\* The for loop of check_realdebrid from torrent i on; an exception of
\* get_torrent_info leaves the loop (the outer except).
RECURSIVE check_realdebrid_loop(_, _, _)
check_realdebrid_loop(torrents, i, acc) ==
    IF i > Len(torrents) THEN acc
    ELSE LET t == torrents[i]
             key == monitor_key("rd", t.id)
         IN  IF t.status = "waiting_files_selection"
             THEN check_realdebrid_loop(torrents, i + 1,
                    [acc EXCEPT !.selected = @ \cup {t.id}])
             ELSE IF t.status # "downloaded"
                  THEN check_realdebrid_loop(torrents, i + 1, acc)
             ELSE IF is_processed(acc.data, key)
                  THEN check_realdebrid_loop(torrents, i + 1, acc)
             ELSE IF ~t.info_ok
                  THEN [acc EXCEPT !.aborted_at = i]
             ELSE LET after == check_realdebrid_links(t.links, 1, t.id, acc)
                  IN  check_realdebrid_loop(torrents, i + 1,
                        [after EXCEPT
                           !.data = add_processed(after.data, key)])

\* One run of Monitor.check_realdebrid on the listing Real-Debrid returns.
CheckRealDebrid(torrents) ==
    LET res == check_realdebrid_loop(torrents, 1,
                  [data |-> MonitorView, calls |-> << >>, tried |-> << >>,
                   selected |-> {}, aborted_at |-> 0])
    IN  /\ IF res.data = MonitorView
           THEN UNCHANGED stvars
           ELSE MonitorWrites(res.data)
        /\ ever_marked' = ever_marked
                            \cup (res.data.processed \ MonitorView.processed)
        /\ mon_last' = [op |-> "check_realdebrid", torrents |-> torrents,
                        before |-> MonitorView.processed,
                        calls |-> res.calls, tried |-> res.tried,
                        selected |-> res.selected,
                        aborted_at |-> res.aborted_at]
        /\ UNCHANGED <<qvars, wvars, pvars, xvars, acquired, rvars>>

\* main_bot.rd_torrent_gdrive: the intent is stored under f"rd:{tid}".
RdTorrentGdrive(t) ==
    /\ FreshHandleSetIntent(handler_key("rd", t), "gdrive")
    /\ acquired' = dict_set(acquired, <<"rd", t>>, "gdrive")
    /\ mon_last' = [op |-> "rd_torrent_gdrive"]
    /\ UNCHANGED <<qvars, wvars, pvars, xvars, ever_marked, rvars>>

\* main_bot._on_rss_decision for backend 'rd' and the torrent id t returned by
\* add_magnet.
OnRssDecisionRd(t) ==
    /\ FreshHandleSetIntent(handler_key("rd", t), RssUploadDest)
    /\ acquired' = dict_set(acquired, <<"rd", t>>, RssUploadDest)
    /\ mon_last' = [op |-> "_on_rss_decision"]
    /\ UNCHANGED <<qvars, wvars, pvars, xvars, ever_marked, rvars>>

InitRealDebrid ==
    /\ IdleRss
    /\ sq_queue = << >>
    /\ sq_last = NoCall
    /\ InitStore
    /\ IdleMonitor
    /\ IdleWorkers
    /\ IdlePipeline
    /\ IdleCalls

NextRealDebrid ==
    \/ \E view \in RdViews :
            RdWellFormed(view) /\ CheckRealDebrid(RdListing(view))
    \/ \E t \in RDIds : RdTorrentGdrive(t)
    \/ \E t \in RDIds : OnRssDecisionRd(t)
    \/ Restart

SpecRealDebrid == InitRealDebrid /\ [][NextRealDebrid]_vars

(***************************************************************************)
(* Two worker processes, each running Monitor.check_seedbox against the    *)
(* same RedisState, one store call or process_item call per step.  The     *)
(* seedbox lists every torrent of HashOrder as seeding with a base_path.   *)
(***************************************************************************)
WorkerAdvance(w) ==
    IF wk[w].idx < Len(HashOrder)
    THEN [wk EXCEPT ![w].pc = "is_processed", ![w].idx = @ + 1]
    ELSE [wk EXCEPT ![w].pc = "idle", ![w].idx = 1]

\* self.sb.list_torrents() and the start of the for loop.
WListTorrents(w) ==
    /\ wk[w].pc = "idle"
    /\ wk' = [wk EXCEPT ![w].pc = "is_processed", ![w].idx = 1]
    /\ UNCHANGED <<qvars, stvars, mvars, pvars, xvars, submitted_by, wk_delivered,
                   rvars>>

\* if self.state.is_processed(f"sb_{shash}"): continue   (SISMEMBER)
WIsProcessed(w) ==
    /\ wk[w].pc = "is_processed"
    /\ wk' = IF is_processed(persisted,
                             monitor_key("sb", HashOrder[wk[w].idx]))
             THEN WorkerAdvance(w)
             ELSE [wk EXCEPT ![w].pc = "process_item"]
    /\ UNCHANGED <<qvars, stvars, mvars, pvars, xvars, submitted_by, wk_delivered,
                   rvars>>

\* self.downloader.process_item(...): the transfer is handed to the executor
\* of this process and the call returns.
WProcessItem(w) ==
    /\ wk[w].pc = "process_item"
    /\ wk' = [wk EXCEPT ![w].pc = "add_processed",
                        ![w].tasks = @ \cup {HashOrder[wk[w].idx]}]
    /\ submitted_by' = [submitted_by EXCEPT
                           ![HashOrder[wk[w].idx]] = @ \cup {w}]
    /\ UNCHANGED <<qvars, stvars, mvars, pvars, xvars, wk_delivered,
                   rvars>>

\* self.state.add_processed(f"sb_{shash}")   (SADD)
WAddProcessed(w) ==
    /\ wk[w].pc = "add_processed"
    /\ persisted' = add_processed(persisted,
                                  monitor_key("sb", HashOrder[wk[w].idx]))
    /\ wk' = WorkerAdvance(w)
    /\ UNCHANGED <<qvars, mvars, pvars, xvars, store_kind, mon_data, jobs_data,
                   submitted_by, wk_delivered, rvars>>

\* Downloader._run_task of worker w for torrent h runs to its end.
WRunTask(w, h) ==
    /\ h \in wk[w].tasks
    /\ wk' = [wk EXCEPT ![w].tasks = @ \ {h}]
    /\ wk_delivered' = wk_delivered \cup {h}
    /\ UNCHANGED <<qvars, stvars, mvars, pvars, xvars, submitted_by,
                   rvars>>

\* Worker process w is killed and started again: its Monitor thread and the
\* transfers in its executor are gone, the Redis store is untouched.
WKill(w) ==
    /\ wk[w] # WorkerIdle
    /\ wk' = [wk EXCEPT ![w] = WorkerIdle]
    /\ UNCHANGED <<qvars, stvars, mvars, pvars, xvars, submitted_by, wk_delivered,
                   rvars>>

InitWorkers ==
    /\ IdleRss
    /\ sq_queue = << >>
    /\ sq_last = NoCall
    /\ store_kind = "redis"
    /\ persisted = EmptyData
    /\ mon_data = EmptyData
    /\ jobs_data = EmptyData
    /\ IdleMonitor
    /\ IdleWorkers
    /\ IdlePipeline
    /\ IdleCalls

NextWorkers ==
    \/ \E w \in Workers : WListTorrents(w)
    \/ \E w \in Workers : WIsProcessed(w)
    \/ \E w \in Workers : WProcessItem(w)
    \/ \E w \in Workers : WAddProcessed(w)
    \/ \E w \in Workers, h \in Hashes : WRunTask(w, h)
    \/ \E w \in Workers : WKill(w)

SpecWorkers == InitWorkers /\ [][NextWorkers]_vars

(***************************************************************************)
(* Downloader (src/bot/downloader.py)                                      *)
(***************************************************************************)
\* _executor = ThreadPoolExecutor(max_workers=2)
ExecutorWorkers == 2

\* The methods class Downloader defines.
DownloaderMethods ==
    {"process_item", "_process_item_logic", "_update_task_status",
     "get_active_tasks", "_run_task", "_download_file", "_download_sftp",
     "_upload_telegram", "_upload_telegram_large", "_upload_gdrive",
     "_process_queue", "_notify"}

Contents == {"c1"}
ChatIds == {None, "chat"}
PipelineItems ==
    [url : Contents, name : Contents, dest : Sinks, chat_id : ChatIds,
     size : {MaxSize}]

\* Downloader.process_item with _process_item_logic: the item waits in the
\* storage queue when enqueue returns True, else _run_task goes to the
\* executor.
ProcessItem(item, meas) ==
    /\ item.name = item.url
    /\ Len(sq_queue) < MaxQueue
    /\ Len(active_tasks) < MaxTasks
    /\ sq_queue' = enqueue_queue(sq_queue, item, meas)
    /\ active_tasks' = IF enqueue_ret(sq_queue, item, meas)
                       THEN active_tasks
                       ELSE Append(active_tasks, item)
    /\ run_last' = [op |-> "process_item",
                    queued |-> enqueue_ret(sq_queue, item, meas)]
    /\ UNCHANGED <<sq_last, stvars, mvars, wvars, xvars, deliveries,
                   task_table, rvars>>

\* How a run of _run_task can go for a task: _download_file raises; the
\* upload raises (send_document / Telethon); the upload is made; the upload
\* is not made and nothing is raised (_upload_telegram returns early without
\* a chat_id, _upload_gdrive logs a failed rclone).
RunOutcomes(task) ==
    {"download_error"}
        \cup (IF task.dest = "telegram" /\ task.chat_id # None
              THEN {"upload_error", "uploaded"} ELSE {})
        \cup (IF task.dest = "telegram" /\ task.chat_id = None
              THEN {"not_uploaded"} ELSE {})
        \cup (IF task.dest = "gdrive"
              THEN {"uploaded", "not_uploaded"} ELSE {})

dict_count(d, k) == IF k \in dict_keys(d) THEN dict_get(d, k) ELSE 0

\* Downloader._process_queue: dequeue, then _executor.submit(self._worker,
\* ...); looking up an attribute the class does not define raises
\* AttributeError, after the item has left the queue.
process_queue(q, ms) ==
    LET item == dequeue_ret(q, ms)
    IN  IF item = NoneItem
        THEN [queue |-> q, dequeued |-> NoneItem, submitted |-> << >>,
              raised |-> FALSE]
        ELSE IF "_worker" \in DownloaderMethods
        THEN [queue |-> dequeue_queue(q, ms), dequeued |-> item,
              submitted |-> <<item>>, raised |-> FALSE]
        ELSE [queue |-> dequeue_queue(q, ms), dequeued |-> item,
              submitted |-> << >>, raised |-> TRUE]

\* One run of Downloader._run_task, for one of the tasks the executor's
\* threads hold, from its start to its finally clause.  _process_queue is
\* step 6 of the try block; no step consults or writes the upload ledger.
RunTask(i, outcome, ms) ==
    LET task == active_tasks[i]
        sink == <<task.url, task.dest>>
        drains == outcome \in {"uploaded", "not_uploaded"}
        pq == process_queue(sq_queue, ms)
    IN  /\ outcome \in RunOutcomes(task)
        /\ outcome = "uploaded" => dict_count(deliveries, sink) < MaxDeliveries
        /\ deliveries' = IF outcome = "uploaded"
                         THEN dict_set(deliveries, sink,
                                       dict_count(deliveries, sink) + 1)
                         ELSE deliveries
        /\ sq_queue' = IF drains THEN pq.queue ELSE sq_queue
        /\ active_tasks' = RemoveAt(active_tasks, i)
                             \o (IF drains THEN pq.submitted ELSE << >>)
        /\ run_last' = [op |-> "_run_task", task |-> task,
                        outcome |-> outcome, process_queue |-> drains,
                        dequeued |-> IF drains THEN pq.dequeued ELSE NoneItem,
                        raised |-> (~drains \/ pq.raised)]
        /\ UNCHANGED <<sq_last, stvars, mvars, wvars, xvars, task_table,
                   rvars>>

InitPipeline ==
    /\ IdleRss
    /\ sq_queue = << >>
    /\ sq_last = NoCall
    /\ IdleStore
    /\ IdleMonitor
    /\ IdleWorkers
    /\ IdlePipeline
    /\ IdleCalls

NextPipeline ==
    \/ \E item \in PipelineItems, meas \in Measurements :
            ProcessItem(item, meas)
    \/ \E i \in 1 .. ExecutorWorkers :
            /\ i <= Len(active_tasks)
            /\ \E outcome \in {"download_error", "upload_error", "uploaded",
                               "not_uploaded"},
                  ms \in [1 .. Len(sq_queue) -> Measurements] :
                    RunTask(i, outcome, ms)

SpecPipeline == InitPipeline /\ [][NextPipeline]_vars

(***************************************************************************)
(* RSSManager (src/bot/rss.py): candidate link and backend selection       *)
(***************************************************************************)
\* The methods class RDClient, class SeedboxClient and class StateManager
\* define.
RDClientMethods ==
    {"_headers", "_request", "get_user_info", "is_cached", "unrestrict_link",
     "add_magnet", "list_torrents", "get_torrent_info", "delete_torrent",
     "select_files", "get_downloads"}
SeedboxClientMethods ==
    {"_call", "add_torrent", "list_torrents", "stop_torrent",
     "start_torrent", "delete_torrent", "list_files"}
StateManagerMethods ==
    {"is_seen", "add_seen", "set_job", "get_job", "list_jobs",
     "add_processed", "is_processed", "set_intent", "get_intent",
     "is_uploaded", "mark_uploaded", "get_rss_feeds", "save_rss_feeds",
     "add_rss_item_status", "get_rss_item_status",
     "list_rss_items_by_status", "get_rss_feed_stats"}

\* A URL by what the code asks of it: startswith("magnet:"),
\* endswith(".torrent"), and whether btih:<40 hex digits> occurs in it.
Url(scheme, suffix, btih) ==
    [scheme |-> scheme, suffix |-> suffix, btih |-> btih]
NoUrl == [nourl |-> TRUE]
UrlShapes ==
    {Url("magnet:", "", TRUE), Url("magnet:", "", FALSE),
     Url("https:", ".torrent", FALSE), Url("https:", "", FALSE)}
is_magnet(u) == u.scheme = "magnet:"
torrent_like(u) == is_magnet(u) \/ u.suffix = ".torrent"

\* A feed entry: entry.link, one enclosure (or none) and one element of
\* entry.links (or none).
NoEnclosure == [noenclosure |-> TRUE]
Enclosures ==
    {NoEnclosure}
        \cup [type : {"application/x-bittorrent", "text/html"},
              href : UrlShapes]
Entries ==
    [link : UrlShapes \cup {NoUrl}, enclosure : Enclosures,
     links : UrlShapes \cup {NoUrl}]

\* RSSManager._extract_torrent_url
extract_torrent_url(entry) ==
    IF entry.link # NoUrl /\ torrent_like(entry.link) THEN entry.link
    ELSE IF /\ entry.enclosure # NoEnclosure
            /\ entry.enclosure.type = "application/x-bittorrent"
         THEN entry.enclosure.href
    ELSE IF entry.links # NoUrl /\ torrent_like(entry.links) THEN entry.links
    ELSE NoUrl

\* The feed dict and the environment of one _add_rss_torrent call: which
\* clients are configured, whether requests.get of a .torrent url succeeds,
\* and what Real-Debrid would answer about the torrent's availability.
Feeds == [service : {"rd", "sb", None}, private : BOOLEAN]
RssEnvs ==
    [rd_client : {None, "RDClient"}, sb_client : {None, "SeedboxClient"},
     fetch_ok : BOOLEAN, cache : {"cached", "not_cached", "error"}]

select_service_by_cache_except_rd(torrent_url, env) ==
    IF env.rd_client = None THEN "sb"
    ELSE IF is_magnet(torrent_url) /\ ~torrent_url.btih THEN "sb"
    ELSE "rd"

select_service_by_cache_is_cached(torrent_url, env) ==
    IF env.rd_client = None THEN "sb"
    ELSE IF is_magnet(torrent_url) /\ ~torrent_url.btih THEN "sb"
    ELSE IF ~is_magnet(torrent_url) /\ ~env.fetch_ok THEN "sb"
    ELSE IF env.cache = "cached" THEN "rd" ELSE "sb"

\* RSSManager._select_service_by_cache: every exception inside the try block
\* (a failed download, a missing method of the client, an API error) ends in
\* the except clause, which returns 'sb'.
select_service_by_cache(torrent_url, env) ==
    IF env.rd_client = None THEN "sb"
    ELSE IF is_magnet(torrent_url) /\ ~torrent_url.btih THEN "sb"
    ELSE IF ~is_magnet(torrent_url) /\ ~env.fetch_ok THEN "sb"
    ELSE IF "check_instant_availability" \notin RDClientMethods THEN "sb"
    ELSE IF env.cache = "error" THEN "sb"
    ELSE IF env.cache = "cached" THEN "rd"
    ELSE "sb"

selected_service_private_first(feed, torrent_url, env) ==
    IF feed.private THEN "sb"
    ELSE IF feed.service \in {"rd", "sb"} THEN feed.service
    ELSE select_service_by_cache(torrent_url, env)

\* The service selection at the head of RSSManager._add_rss_torrent.
selected_service(feed, torrent_url, env) ==
    IF feed.service \in {"rd", "sb"} THEN feed.service
    ELSE IF feed.private THEN "sb"
    ELSE select_service_by_cache(torrent_url, env)

\* The rest of _add_rss_torrent: the add call on the selected client and
\* state_manager.add_torrent; a missing method or a failed download raises
\* and the method returns False.
add_to_service(service, torrent_url, env) ==
    LET client == IF service = "rd" THEN env.rd_client ELSE env.sb_client
        methods == IF service = "rd" THEN RDClientMethods
                   ELSE SeedboxClientMethods
        method == IF is_magnet(torrent_url) THEN "add_magnet"
                  ELSE "add_torrent"
    IN  IF client = None
        THEN [backend_call |-> << >>, returned |-> FALSE]
        ELSE IF ~is_magnet(torrent_url) /\ ~env.fetch_ok
        THEN [backend_call |-> << >>, returned |-> FALSE]
        ELSE IF method \notin methods
        THEN [backend_call |-> << >>, returned |-> FALSE]
        ELSE [backend_call |-> <<service, method>>,
              returned |-> "add_torrent" \in StateManagerMethods]

\* One entry of a polled feed: _extract_torrent_url, then _add_rss_torrent
\* on the candidate; an entry without a candidate is skipped.
AddRssTorrent ==
    /\ call_in.called = FALSE
    /\ call_in.fn = "_add_rss_torrent"
    /\ LET torrent_url == extract_torrent_url(call_in.entry)
           service == selected_service(call_in.feed, torrent_url,
                                       call_in.env)
       IN  call_out' =
             IF torrent_url = NoUrl
             THEN [called |-> TRUE, torrent_url |-> NoUrl,
                   selected |-> None, backend_call |-> << >>,
                   returned |-> FALSE]
             ELSE [called |-> TRUE, torrent_url |-> torrent_url,
                   selected |-> service,
                   backend_call |->
                      add_to_service(service, torrent_url,
                                     call_in.env).backend_call,
                   returned |->
                      add_to_service(service, torrent_url,
                                     call_in.env).returned]
    /\ call_in' = [call_in EXCEPT !.called = TRUE]
    /\ UNCHANGED <<qvars, stvars, mvars, wvars, pvars, th, client_lock,
                   rvars>>

InitRouter ==
    /\ IdleRss
    /\ sq_queue = << >>
    /\ sq_last = NoCall
    /\ IdleStore
    /\ IdleMonitor
    /\ IdleWorkers
    /\ IdlePipeline
    /\ call_in \in [called : {FALSE}, fn : {"_add_rss_torrent"},
                    entry : Entries, feed : Feeds, env : RssEnvs]
    /\ call_out = NotCalled
    /\ th = [t \in Threads |-> ThreadIdle]
    /\ client_lock = NoLockHolder

NextRouter == AddRssTorrent

SpecRouter == InitRouter /\ [][NextRouter]_vars

(***************************************************************************)
(* Binary splitter (src/bot/utils/splitter.py)                             *)
(*                                                                         *)
(* A file of size S is the byte sequence <<1, ..., S>>: each byte carries  *)
(* its own offset, so that a lost, repeated or misplaced byte shows in the *)
(* parts.  CHUNK_SIZE and BUFFER_SIZE are inputs of the call, in units in  *)
(* which the sizes of the model are small.                                 *)
(***************************************************************************)
Min(a, b) == IF a <= b THEN a ELSE b

file_bytes(size) == [i \in 1..size |-> i]

\* f.read(n) at offset pos of a file of `size` bytes: the number of bytes
\* returned, short only at the end of the file.
f_read(pos, n, size) == Min(n, size - pos)

\* Decimal digits of a natural number, most significant first.
RECURSIVE Digits(_)
Digits(n) == IF n < 10 THEN <<n>> ELSE Append(Digits(n \div 10), n % 10)

\* f"{part_idx:03d}": zero-padded to at least three digits.
fmt_03d(part_idx) ==
    LET d == Digits(part_idx)
    IN  IF Len(d) >= 3 THEN d ELSE [i \in 1..(3 - Len(d)) |-> 0] \o d

\* The inner loop with f.read(BUFFER_SIZE): the read is not capped by what
\* the part may still take.
RECURSIVE write_part_uncapped(_, _, _, _, _)
write_part_uncapped(pos, bytes_written, size, chunk_size, buffer_size) ==
    IF bytes_written < chunk_size
    THEN LET got == f_read(pos + bytes_written, buffer_size, size)
         IN  IF got = 0
             THEN bytes_written
             ELSE write_part_uncapped(pos, bytes_written + got, size,
                                      chunk_size, buffer_size)
    ELSE bytes_written

\* The inner loop of _split_binary: bytes written to the part that starts at
\* offset pos.
RECURSIVE write_part(_, _, _, _, _)
write_part(pos, bytes_written, size, chunk_size, buffer_size) ==
    IF bytes_written < chunk_size
    THEN LET got == f_read(pos + bytes_written,
                           Min(buffer_size, chunk_size - bytes_written),
                           size)
         IN  IF got = 0
             THEN bytes_written
             ELSE write_part(pos, bytes_written + got, size,
                             chunk_size, buffer_size)
    ELSE bytes_written

\* The outer loop leaving as soon as a part comes out short of CHUNK_SIZE,
\* without keeping it.
RECURSIVE split_parts_full_only(_, _, _, _, _)
split_parts_full_only(pos, part_idx, size, chunk_size, buffer_size) ==
    LET bytes_written == write_part(pos, 0, size, chunk_size, buffer_size)
    IN  IF bytes_written < chunk_size
        THEN << >>
        ELSE <<[ordinal |-> fmt_03d(part_idx),
                data |-> SubSeq(file_bytes(size), pos + 1,
                                pos + bytes_written)]>>
             \o split_parts_full_only(pos + bytes_written, part_idx + 1,
                                      size, chunk_size, buffer_size)

\* The outer loop of _split_binary from offset pos on: the parts appended,
\* each with the ordinal of its name and the bytes written to it.
RECURSIVE split_parts(_, _, _, _, _)
split_parts(pos, part_idx, size, chunk_size, buffer_size) ==
    LET bytes_written == write_part(pos, 0, size, chunk_size, buffer_size)
    IN  IF bytes_written = 0
        THEN << >>
        ELSE <<[ordinal |-> fmt_03d(part_idx),
                data |-> SubSeq(file_bytes(size), pos + 1,
                                pos + bytes_written)]>>
             \o split_parts(pos + bytes_written, part_idx + 1,
                            size, chunk_size, buffer_size)

split_binary(size, chunk_size, buffer_size) ==
    split_parts(0, 1, size, chunk_size, buffer_size)

SplitBinary ==
    /\ call_in.called = FALSE
    /\ call_in.fn = "_split_binary"
    /\ call_out' = [called |-> TRUE,
                    parts |-> split_binary(call_in.size, call_in.chunk_size,
                                           call_in.buffer_size)]
    /\ call_in' = [call_in EXCEPT !.called = TRUE]
    /\ UNCHANGED <<qvars, stvars, mvars, wvars, pvars, th, client_lock,
                   rvars>>

InitSplitter ==
    /\ IdleRss
    /\ sq_queue = << >>
    /\ sq_last = NoCall
    /\ IdleStore
    /\ IdleMonitor
    /\ IdleWorkers
    /\ IdlePipeline
    /\ call_in \in [called : {FALSE}, fn : {"_split_binary"},
                    size : 0..MaxFileSize, chunk_size : 1..MaxChunk,
                    buffer_size : 1..MaxBuffer]
    /\ call_out = NotCalled
    /\ th = [t \in Threads |-> ThreadIdle]
    /\ client_lock = NoLockHolder

NextSplitter == SplitBinary

SpecSplitter == InitSplitter /\ [][NextSplitter]_vars

(***************************************************************************)
(* Telethon uploads (src/bot/telethon_uploader.py, _upload_telegram_large) *)
(*                                                                         *)
(* Each executor thread runs asyncio.run(uploader.upload_file(...)) on an  *)
(* event loop of its own; upload_file holds the module lock _client_lock   *)
(* from before connect() until send_file has returned or raised.           *)
(***************************************************************************)
\* A lock that lets every caller in.
lock_acquirable_always(lock) == TRUE

\* threading.Lock: `with _client_lock` goes on only when nobody holds it.
lock_acquirable(lock) == lock = NoLockHolder

\* _upload_telegram_large up to the call of upload_file: without an uploader
\* the upload is given up, otherwise the thread reaches `with _client_lock`.
UploadTelegramLarge(t) ==
    /\ th[t].pc = "idle"
    /\ th[t].uploads < MaxUploads
    /\ \E uploader \in {None, "TelethonUploader"} :
         th' = [th EXCEPT ![t] =
                  IF uploader = None
                  THEN [pc |-> "idle", uploads |-> @.uploads + 1,
                        result |-> "not_configured"]
                  ELSE [pc |-> "with_client_lock",
                        uploads |-> @.uploads + 1, result |-> None]]
    /\ UNCHANGED <<qvars, stvars, mvars, wvars, pvars, call_in, call_out,
                   client_lock, rvars>>

\* `with _client_lock:` entered.
AcquireClientLock(t) ==
    /\ th[t].pc = "with_client_lock"
    /\ lock_acquirable(client_lock)
    /\ client_lock' = t
    /\ th' = [th EXCEPT ![t].pc = "connect"]
    /\ UNCHANGED <<qvars, stvars, mvars, wvars, pvars, call_in, call_out,
                   rvars>>

\* await self.connect(): returns, or raises and leaves the with block.
Connect(t) ==
    /\ th[t].pc = "connect"
    /\ \E raised \in BOOLEAN :
         IF raised
         THEN /\ th' = [th EXCEPT ![t].pc = "idle", ![t].result = "failed"]
              /\ client_lock' = NoLockHolder
         ELSE /\ th' = [th EXCEPT ![t].pc = "send_file"]
              /\ UNCHANGED client_lock
    /\ UNCHANGED <<qvars, stvars, mvars, wvars, pvars, call_in, call_out,
                   rvars>>

\* await self.client.send_file(...): returns or raises; either way the with
\* block is left and the lock released.
SendFile(t) ==
    /\ th[t].pc = "send_file"
    /\ \E raised \in BOOLEAN :
         th' = [th EXCEPT ![t].pc = "idle",
                          ![t].result = IF raised THEN "failed"
                                        ELSE "uploaded"]
    /\ client_lock' = NoLockHolder
    /\ UNCHANGED <<qvars, stvars, mvars, wvars, pvars, call_in, call_out,
                   rvars>>

InitTelethon ==
    /\ IdleRss
    /\ sq_queue = << >>
    /\ sq_last = NoCall
    /\ IdleStore
    /\ IdleMonitor
    /\ IdleWorkers
    /\ IdlePipeline
    /\ IdleCalls

NextTelethon ==
    \E t \in Threads :
        \/ UploadTelegramLarge(t)
        \/ AcquireClientLock(t)
        \/ Connect(t)
        \/ SendFile(t)

SpecTelethon == InitTelethon /\ [][NextTelethon]_vars

(***************************************************************************)
(* Upload sinks (Downloader._upload_telegram, _upload_telegram_large,      *)
(* _upload_gdrive) and the upload ledger of the state store                *)
(***************************************************************************)
FileSizes ==
    {0, BotApiMaxSize - 1, BotApiMaxSize, BotApiMaxSize + 1,
     MAX_TG_SIZE, MAX_TG_SIZE + 1}
FileHashes == {"f1", "f2"}

\* data["uploads"]: the (file hash, destination) pairs set to True.
Ledgers == SUBSET (FileHashes \X Sinks)

is_uploaded(uploads, file_hash, dest) == <<file_hash, dest>> \in uploads

mark_uploaded(uploads, file_hash, dest) ==
    uploads \cup {<<file_hash, dest>>}

\* self._notify: a chat message only with an updater and a chat id.
notify(a, text) == IF a.updater /\ a.chat_id # None THEN text ELSE None

\* _upload_telegram_large: uploader missing, upload raised (caught here), or
\* upload made.
upload_telegram_large(a) ==
    IF ~a.telethon_configured
    THEN [path |-> "telethon", delivered |-> FALSE, raised |-> FALSE,
          notified |-> notify(a, "telethon_not_configured")]
    ELSE IF a.send_raises
    THEN [path |-> "telethon", delivered |-> FALSE, raised |-> FALSE,
          notified |-> notify(a, "telethon_upload_failed")]
    ELSE [path |-> "telethon", delivered |-> TRUE, raised |-> FALSE,
          notified |-> notify(a, "uploading")]

\* _upload_telegram: the path taken for the file, whether the file was
\* sent, and whether an exception left the method.
upload_telegram(a) ==
    IF ~a.updater \/ a.chat_id = None
    THEN [path |-> "skipped", delivered |-> FALSE, raised |-> FALSE,
          notified |-> None]
    ELSE IF a.size > MAX_TG_SIZE
    THEN [path |-> "too_large", delivered |-> FALSE, raised |-> FALSE,
          notified |-> notify(a, "too_large")]
    ELSE IF a.size > BotApiMaxSize
    THEN upload_telegram_large(a)
    ELSE [path |-> "bot_api", delivered |-> ~a.send_raises,
          raised |-> a.send_raises, notified |-> notify(a, "uploading")]

\* _upload_gdrive: the number of rclone runs, the report made of the
\* delivery and whether the file was copied (rclone exit status 0).
upload_gdrive(a) ==
    IF ~a.rclone_found
    THEN [invocations |-> 0, report |-> "rclone_not_found",
          delivered |-> FALSE, notified |-> notify(a, "rclone_not_found")]
    ELSE IF a.run_raises
    THEN [invocations |-> 1, report |-> "exception",
          delivered |-> FALSE, notified |-> notify(a, "exception")]
    ELSE IF a.returncode = 0
    THEN [invocations |-> 1, report |-> "uploaded",
          delivered |-> TRUE, notified |-> notify(a, "uploaded")]
    ELSE [invocations |-> 1, report |-> "failed",
          delivered |-> FALSE, notified |-> notify(a, "failed")]

\* One call of _upload_telegram.  No statement of the upload code calls
\* mark_uploaded: the ledger is left as it was.
UploadTelegram ==
    /\ call_in.called = FALSE
    /\ call_in.fn = "_upload_telegram"
    /\ call_out' = [called |-> TRUE, dest |-> "telegram",
                    result |-> upload_telegram(call_in),
                    delivered |-> upload_telegram(call_in).delivered,
                    uploads |-> call_in.uploads]
    /\ call_in' = [call_in EXCEPT !.called = TRUE]
    /\ UNCHANGED <<qvars, stvars, mvars, wvars, pvars, th, client_lock,
                   rvars>>

\* One call of _upload_gdrive.
UploadGdrive ==
    /\ call_in.called = FALSE
    /\ call_in.fn = "_upload_gdrive"
    /\ call_out' = [called |-> TRUE, dest |-> "gdrive",
                    result |-> upload_gdrive(call_in),
                    delivered |-> upload_gdrive(call_in).delivered,
                    uploads |-> call_in.uploads]
    /\ call_in' = [call_in EXCEPT !.called = TRUE]
    /\ UNCHANGED <<qvars, stvars, mvars, wvars, pvars, th, client_lock,
                   rvars>>

TelegramCalls ==
    [called : {FALSE}, fn : {"_upload_telegram"}, updater : BOOLEAN,
     chat_id : ChatIds, size : FileSizes, telethon_configured : BOOLEAN,
     send_raises : BOOLEAN, file_hash : FileHashes, uploads : Ledgers]

GdriveCalls ==
    [called : {FALSE}, fn : {"_upload_gdrive"}, updater : BOOLEAN,
     chat_id : ChatIds, rclone_found : BOOLEAN, run_raises : BOOLEAN,
     returncode : {0, 1}, stderr : {"", "NOTICE"},
     file_hash : FileHashes, uploads : Ledgers]

InitSink ==
    /\ IdleRss
    /\ sq_queue = << >>
    /\ sq_last = NoCall
    /\ IdleStore
    /\ IdleMonitor
    /\ IdleWorkers
    /\ IdlePipeline
    /\ call_in \in TelegramCalls \cup GdriveCalls
    /\ call_out = NotCalled
    /\ th = [t \in Threads |-> ThreadIdle]
    /\ client_lock = NoLockHolder

NextSink == UploadTelegram \/ UploadGdrive

SpecSink == InitSink /\ [][NextSink]_vars

(***************************************************************************)
(* Downloader._download_file on an http(s) url                             *)
(*                                                                         *)
(* One step is one pass of `for attempt in range(max_retries)`: a GET that *)
(* streams the body to dest_path, or the exception it ends with.           *)
(***************************************************************************)
RetryStatusCodes == {500, 502, 503, 504, 429}

\* What one GET attempt can end with: the body written, raise_for_status
\* raising HTTPError for the status, a ConnectionError or Timeout (which
\* carry no response), or an exception of another class (for example
\* OSError while writing the file).
GetOutcomes ==
    {[kind |-> "ok"], [kind |-> "ConnectionError"], [kind |-> "Timeout"],
     [kind |-> "OSError"]}
        \cup [kind : {"HTTPError"}, status : {404, 429, 501, 503}]

caught(e) == e.kind \in {"HTTPError", "ConnectionError", "Timeout"}

\* getattr(e.response, 'status_code', None) is None
status_code_is_none(e) == e.kind # "HTTPError"

\* The retry test without the status test.
should_retry_any_status(attempt, e) == attempt < max_retries - 1

\* attempt < max_retries - 1 and (status_code in [...] or status_code is None)
should_retry(attempt, e) ==
    /\ attempt < max_retries - 1
    /\ (status_code_is_none(e) \/ e.status \in RetryStatusCodes)

DownloadRunning == [called |-> FALSE, attempt |-> 0, log |-> << >>,
                    result |-> "running"]

\* One pass of the loop body; call_out.attempt is the loop variable and
\* call_out.log the outcomes of the GETs made so far.
DownloadAttempt ==
    /\ call_in.fn = "_download_file"
    /\ call_out.result = "running"
    /\ \E e \in GetOutcomes :
         LET attempt == call_out.attempt
             log == Append(call_out.log, e)
         IN  call_out' =
               IF e.kind = "ok"
               THEN [called |-> TRUE, attempt |-> attempt, log |-> log,
                     result |-> "returned"]
               ELSE IF caught(e) /\ should_retry(attempt, e)
               THEN [called |-> FALSE, attempt |-> attempt + 1, log |-> log,
                     result |-> "running"]
               ELSE [called |-> TRUE, attempt |-> attempt, log |-> log,
                     result |-> "raised"]
    /\ call_in' = [call_in EXCEPT !.called = TRUE]
    /\ UNCHANGED <<qvars, stvars, mvars, wvars, pvars, th, client_lock,
                   rvars>>

InitDownloadFile ==
    /\ IdleRss
    /\ sq_queue = << >>
    /\ sq_last = NoCall
    /\ IdleStore
    /\ IdleMonitor
    /\ IdleWorkers
    /\ IdlePipeline
    /\ call_in = [called |-> FALSE, fn |-> "_download_file"]
    /\ call_out = DownloadRunning
    /\ th = [t \in Threads |-> ThreadIdle]
    /\ client_lock = NoLockHolder

NextDownloadFile == DownloadAttempt

\* Each GET ends (timeout=30) and the loop goes on by itself: weak fairness.
SpecDownloadFile ==
    InitDownloadFile /\ [][NextDownloadFile]_vars
        /\ WF_vars(NextDownloadFile)

(***************************************************************************)
(* JsonFileState: one instance writing, and a new instance built on the    *)
(* same file afterwards (src/bot/state.py, src/tests/test_state.py)        *)
(***************************************************************************)
FeedUrls == {"http://feed.com"}

seen_list(data, feed_url) ==
    IF feed_url \in dict_keys(data.seen) THEN dict_get(data.seen, feed_url)
    ELSE << >>

is_seen(data, feed_url, item_id) ==
    \E i \in 1 .. Len(seen_list(data, feed_url)) :
        seen_list(data, feed_url)[i] = item_id

add_seen(data, feed_url, item_id) ==
    [data EXCEPT !.seen = dict_set(@, feed_url,
                              Append(seen_list(data, feed_url), item_id))]

get_job(data, job_id) == dict_get(data.jobs, job_id)

\* The writes of the claim, each with its arguments.
StateWrites ==
    [op : {"add_seen"}, feed_url : FeedUrls, item_id : {"h1"}]
        \cup [op : {"set_job"}, job_id : JobIds, value : {"ok", "queued"}]
        \cup [op : {"add_processed"}, item_id : {"h1"}]
        \cup [op : {"set_intent"}, item_id : {"h1"}, dest : Sinks]
        \cup [op : {"mark_uploaded"}, file_hash : {"f1"}, dest : Sinks]

\* self.data after the write (before _save).
state_write(data, w) ==
    CASE w.op = "add_seen" -> add_seen(data, w.feed_url, w.item_id)
      [] w.op = "set_job" -> set_job(data, w.job_id, w.value)
      [] w.op = "add_processed" -> add_processed(data, w.item_id)
      [] w.op = "set_intent" -> set_intent(data, w.item_id, w.dest)
      [] w.op = "mark_uploaded" ->
            [data EXCEPT !.uploads = mark_uploaded(@, w.file_hash, w.dest)]

\* The matching read: is_seen, get_job, is_processed, get_intent,
\* is_uploaded returns what the write stored.
state_reads_back(data, w) ==
    CASE w.op = "add_seen" -> is_seen(data, w.feed_url, w.item_id)
      [] w.op = "set_job" -> get_job(data, w.job_id) = w.value
      [] w.op = "add_processed" -> is_processed(data, w.item_id)
      [] w.op = "set_intent" -> get_intent(data, w.item_id) = w.dest
      [] w.op = "mark_uploaded" ->
            is_uploaded(data.uploads, w.file_hash, w.dest)

\* What state.json may hold when the first instance is built: no file, a
\* file json.load rejects, a file with some of the keys.
StateFiles ==
    {NoFile, [corrupt |-> TRUE], [processed |-> {"h2"}],
     [jobs |-> {<<"j1", "done">>}, intents |-> {<<"h1", "telegram">>}]}

\* One write through the instance: the update of self.data, then _save.
StateWrite(w) ==
    /\ w.op = "add_seen" => Len(seen_list(mon_data, w.feed_url)) < MaxSeen
    /\ mon_data' = state_write(mon_data, w)
    /\ persisted' = json_save(state_write(mon_data, w))
    /\ call_out' = [called |-> TRUE, write |-> w, reloaded |-> FALSE]
    /\ UNCHANGED <<qvars, mvars, wvars, pvars, store_kind, jobs_data,
                   call_in, th, client_lock, rvars>>

\* JsonFileState(self.filename) after the write: a new instance loads the
\* file.
NewInstance ==
    /\ call_out.called
    /\ ~call_out.reloaded
    /\ jobs_data' = json_load(persisted)
    /\ call_out' = [call_out EXCEPT !.reloaded = TRUE]
    /\ UNCHANGED <<qvars, mvars, wvars, pvars, store_kind, persisted,
                   mon_data, call_in, th, client_lock, rvars>>

InitJsonState ==
    /\ IdleRss
    /\ sq_queue = << >>
    /\ sq_last = NoCall
    /\ store_kind = "json"
    /\ persisted \in StateFiles
    /\ mon_data = json_load(persisted)
    /\ jobs_data = EmptyData
    /\ IdleMonitor
    /\ IdleWorkers
    /\ IdlePipeline
    /\ IdleCalls

NextJsonState == (\E w \in StateWrites : StateWrite(w)) \/ NewInstance

SpecJsonState == InitJsonState /\ [][NextJsonState]_vars

(***************************************************************************)
(* Background jobs (src/bot/jobs.py): enqueue_ytdl and _run_ytdl           *)
(***************************************************************************)
YtdlJobs == {"j1", "j2", "j3"}

\* The names a `from bot.queue import ...` can find (src/bot/queue.py).
BotQueueNames ==
    {"os", "time", "json", "threading", "Optional", "Dict", "Any",
     "REDIS_URL", "RedisUnavailable", "JobQueue", "Lock"}

\* An import that finds every name.
from_bot_queue_import_any(name) == TRUE

\* `from bot.queue import name`: ImportError unless the module has the name.
from_bot_queue_import(name) == name \in BotQueueNames

\* What _run_ytdl meets after its first set_job: the free-space
\* measurement, os.makedirs, the yt-dlp run and the upload of its files.
YtdlEnvs ==
    [meas : Measurements, makedirs_raises : BOOLEAN,
     run : {"rc0", "rc1", "TimeoutExpired", "Exception"},
     upload_raises : BOOLEAN]

\* _run_ytdl from its first statement on: the statuses it passes to set_job,
\* in order, and how the call ends.
run_ytdl(env) ==
    IF ~from_bot_queue_import("get_storage_queue")
    THEN [statuses |-> <<"running">>, ended |-> "raised"]
    ELSE IF ~has_space(env.meas, 0)
    THEN [statuses |-> <<"running", "paused">>, ended |-> "returned"]
    ELSE IF env.makedirs_raises
    THEN [statuses |-> <<"running">>, ended |-> "raised"]
    ELSE IF env.run = "rc0"
    THEN [statuses |-> IF env.upload_raises
                       THEN <<"running", "done", "error">>
                       ELSE <<"running", "done">>,
          ended |-> "returned"]
    ELSE [statuses |->
            <<"running",
              CASE env.run = "rc1" -> "failed"
                [] env.run = "TimeoutExpired" -> "timeout"
                [] OTHER -> "error">>,
          ended |-> "returned"]

YtdlThreadIdle == [pc |-> "idle", job |-> None, statuses |-> << >>,
                   ended |-> None]

\* jobs.enqueue_ytdl: the 'queued' record is stored, then _run_ytdl is
\* handed to the executor, where a free thread takes it.
EnqueueYtdlJob(j) ==
    /\ j \notin dict_keys(JobsView.jobs)
    /\ JobsWrites(set_job(JobsView, j, "queued"))
    /\ active_tasks' = Append(active_tasks, j)
    /\ UNCHANGED <<qvars, mvars, wvars, xvars, deliveries, run_last,
                   task_table, rvars>>

\* A thread of the executor starts _run_ytdl for the oldest waiting job.
RunYtdl(t, env) ==
    /\ th[t].pc # "running"
    /\ active_tasks # << >>
    /\ th' = [th EXCEPT ![t] =
                [pc |-> "running", job |-> Head(active_tasks),
                 statuses |-> run_ytdl(env).statuses,
                 ended |-> run_ytdl(env).ended]]
    /\ active_tasks' = Tail(active_tasks)
    /\ UNCHANGED <<qvars, stvars, mvars, wvars, deliveries, run_last,
                   task_table, call_in, call_out, client_lock,
                   rvars>>

\* The next _state_manager.set_job of the running call; after the last one
\* the call ends.
YtdlSetJob(t) ==
    /\ th[t].pc = "running"
    /\ JobsWrites(set_job(JobsView, th[t].job, Head(th[t].statuses)))
    /\ th' = [th EXCEPT ![t].statuses = Tail(@),
                        ![t].pc = IF Tail(th[t].statuses) = << >>
                                  THEN "ended" ELSE "running"]
    /\ UNCHANGED <<qvars, mvars, wvars, pvars, call_in, call_out,
                   client_lock, rvars>>

InitJobs ==
    /\ IdleRss
    /\ sq_queue = << >>
    /\ sq_last = NoCall
    /\ InitStore
    /\ IdleMonitor
    /\ IdleWorkers
    /\ IdlePipeline
    /\ call_in = NotCalled
    /\ call_out = NotCalled
    /\ th = [t \in Threads |-> YtdlThreadIdle]
    /\ client_lock = NoLockHolder

NextJobs ==
    \/ \E j \in YtdlJobs : EnqueueYtdlJob(j)
    \/ \E t \in Threads, env \in YtdlEnvs : RunYtdl(t, env)
    \/ \E t \in Threads : YtdlSetJob(t)

SpecJobs == InitJobs /\ [][NextJobs]_vars

(***************************************************************************)
(* Lifecycle of a task: Downloader.process_item, _process_item_logic and   *)
(* _run_task step by step, with the active-task table                      *)
(***************************************************************************)
TaskItems == [name : Contents, dest : Sinks, chat_id : ChatIds]

\* Values of int(time.time()): two calls of process_item fall in the same
\* second or in different ones.
Seconds == {1, 2}

\* task_id = f"{name}_{int(time.time())}"
task_id_of(name, now) == <<name, "_", now>>

\* _update_task_status: only an entry that is in the table is written.
update_task_status(table, task_id, status) ==
    IF task_id \in dict_keys(table) THEN dict_set(table, task_id, status)
    ELSE table

\* A finally clause that leaves the entry where it is.
del_task_never(table, task_id) == table

\* finally: del self._active_tasks[task_id], when it is there.
del_task(table, task_id) == {p \in table : p[1] # task_id}

\* items_to_upload: the file itself, or what packager.prepare lists for a
\* directory, each entry skipped or not.
PreparedLists ==
    {<<[skipped |-> FALSE]>>, <<[skipped |-> TRUE], [skipped |-> FALSE]>>}

\* The disk measurements a task meets: a failed one, too little free space
\* for any item, room for every item.
TaskMeasurements ==
    {MeasureFail, [ok |-> TRUE, free |-> MinFreeGb - 1],
     [ok |-> TRUE, free |-> MinFreeGb + MaxSize + 1]}

\* What the sink meets in one upload of a task: for Telegram the file size
\* (Bot API, Telethon or over the limit), the Telethon set-up and the send
\* result; for Google Drive the rclone set-up and run result.
UploadSizes == {0, BotApiMaxSize + 1, MAX_TG_SIZE + 1}
UploadEnvs(dest) ==
    IF dest = "telegram"
    THEN [size : UploadSizes, telethon_configured : BOOLEAN,
          send_raises : BOOLEAN, rclone_found : {TRUE},
          run_raises : {FALSE}, returncode : {0}]
    ELSE [size : {0}, telethon_configured : {TRUE}, send_raises : {FALSE},
          rclone_found : BOOLEAN, run_raises : BOOLEAN, returncode : {0, 1}]

\* The call of _upload_telegram / _upload_gdrive made for an item of the
\* task, with self.updater set.
upload_call(item, env) ==
    env @@ [updater |-> TRUE, chat_id |-> item.chat_id, stderr |-> ""]

\* A run of _run_task: where it is, what it works on and what it has done.
\* task_id, item and prepared are its locals, dropped when it ends.
TaskThreadIdle ==
    [pc |-> "idle", task_id |-> << >>, item |-> NoneItem,
     prepared |-> << >>, idx |-> 1, packaged |-> FALSE, uploads |-> 0,
     undelivered |-> FALSE, error |-> FALSE, error_notified |-> FALSE,
     deleted |-> FALSE, reported |-> FALSE, outcome |-> None]

run_task_ended(r, outcome) ==
    [r EXCEPT !.pc = "done", !.outcome = outcome, !.task_id = << >>,
              !.item = NoneItem, !.prepared = << >>, !.idx = 1]

\* The except and finally clauses of _run_task: error log and _notify (a
\* message only with a chat id), then the end of the run.
run_task_failed(r, outcome) ==
    run_task_ended([r EXCEPT !.error = TRUE,
                             !.error_notified = (r.item.chat_id # None)],
                   outcome)

\* The clock of task ids moves on.
TimePasses ==
    /\ call_in.fn = "process_item"
    /\ call_in.now + 1 \in Seconds
    /\ call_in' = [call_in EXCEPT !.now = @ + 1]
    /\ UNCHANGED <<qvars, stvars, mvars, wvars, pvars, call_out, th,
                   client_lock, rvars>>

\* process_item: the entry 'enqueued' is written, then the item waits in
\* the storage queue ('waiting (low disk)') or _run_task is handed to the
\* executor.
TaskProcessItem(item, meas) ==
    LET task_id == task_id_of(item.name, call_in.now)
        queued == enqueue_ret(sq_queue, item @@ [size |-> MaxSize], meas)
        created == dict_set(task_table, task_id, "enqueued")
    IN  /\ call_in.fn = "process_item"
        /\ call_in.calls < MaxCalls
        /\ call_in' = [call_in EXCEPT !.calls = @ + 1]
        /\ task_table' = IF queued
                         THEN update_task_status(created, task_id,
                                                 "waiting (low disk)")
                         ELSE created
        /\ sq_queue' = IF queued
                       THEN Append(sq_queue, item @@ [size |-> MaxSize])
                       ELSE sq_queue
        /\ active_tasks' = IF queued THEN active_tasks
                           ELSE Append(active_tasks,
                                       [task_id |-> task_id, item |-> item])
        /\ UNCHANGED <<sq_last, stvars, mvars, wvars, deliveries, run_last,
                       call_out, th, client_lock, rvars>>

\* A thread of the executor starts _run_task: status 'downloading'.
RunTaskStart(t) ==
    /\ call_in.fn = "process_item"
    /\ th[t].pc \in {"idle", "done"}
    /\ active_tasks # << >>
    /\ th' = [th EXCEPT ![t] =
                [TaskThreadIdle EXCEPT !.pc = "download",
                                       !.task_id = Head(active_tasks).task_id,
                                       !.item = Head(active_tasks).item]]
    /\ active_tasks' = Tail(active_tasks)
    /\ task_table' = update_task_status(task_table,
                                        Head(active_tasks).task_id,
                                        "downloading")
    /\ UNCHANGED <<qvars, stvars, mvars, wvars, deliveries, run_last,
                   call_in, call_out, client_lock, rvars>>

\* _download_file returns or raises; when it has returned, status
\* 'packaging' and the list of items to upload.
RunTaskDownload(t, raised, prepared) ==
    /\ th[t].pc = "download"
    /\ IF raised
       THEN /\ th' = [th EXCEPT ![t] = run_task_failed(@, "download_error")]
            /\ task_table' = del_task(task_table, th[t].task_id)
       ELSE /\ th' = [th EXCEPT ![t].pc = "upload", ![t].packaged = TRUE,
                                ![t].prepared = prepared]
            /\ task_table' = update_task_status(task_table, th[t].task_id,
                                                "packaging")
    /\ UNCHANGED <<qvars, stvars, mvars, wvars, active_tasks, deliveries,
                   run_last, call_in, call_out, client_lock,
                   rvars>>

\* One pass of `for item in items_to_upload`: a skipped item is passed
\* over; otherwise status 'uploading ...' and _upload_telegram or
\* _upload_gdrive, which delivers, does not deliver, or raises.
RunTaskUpload(t, env) ==
    LET r == th[t]
        a == upload_call(r.item, env)
        raised == r.item.dest = "telegram" /\ upload_telegram(a).raised
        delivered == IF r.item.dest = "telegram"
                     THEN upload_telegram(a).delivered
                     ELSE upload_gdrive(a).delivered
    IN  /\ r.pc = "upload"
        /\ r.idx <= Len(r.prepared)
        /\ env \in UploadEnvs(r.item.dest)
        /\ IF r.prepared[r.idx].skipped
           THEN /\ th' = [th EXCEPT ![t].idx = @ + 1]
                /\ UNCHANGED task_table
           ELSE IF raised
           THEN /\ th' = [th EXCEPT ![t] =
                            run_task_failed(
                                [r EXCEPT !.uploads = @ + 1,
                                          !.undelivered = TRUE],
                                "upload_error")]
                /\ task_table' = del_task(
                        update_task_status(task_table, r.task_id,
                                           "uploading"), r.task_id)
           ELSE /\ th' = [th EXCEPT ![t].idx = @ + 1,
                                    ![t].uploads = @ + 1,
                                    ![t].undelivered = (@ \/ ~delivered)]
                /\ task_table' = update_task_status(task_table, r.task_id,
                                                    "uploading")
        /\ UNCHANGED <<qvars, stvars, mvars, wvars, active_tasks, deliveries,
                       run_last, call_in, call_out, client_lock,
                   rvars>>

\* After the upload loop: the local files are removed, the 'Completed
\* Transfer' report goes to _notify, _process_queue runs (its AttributeError
\* is caught by the except clause), and the entry is removed.
RunTaskFinish(t, ms) ==
    LET r == [th[t] EXCEPT !.deleted = TRUE, !.reported = TRUE]
        pq == process_queue(sq_queue, ms)
    IN  /\ r.pc = "upload"
        /\ r.idx > Len(r.prepared)
        /\ th' = [th EXCEPT ![t] =
                    IF pq.raised THEN run_task_failed(r, "completed")
                    ELSE run_task_ended(r, "completed")]
        /\ sq_queue' = pq.queue
        /\ task_table' = del_task(task_table, r.task_id)
        /\ UNCHANGED <<sq_last, stvars, mvars, wvars, active_tasks,
                       deliveries, run_last, call_in, call_out, client_lock,
                   rvars>>

InitTask ==
    /\ IdleRss
    /\ sq_queue = << >>
    /\ sq_last = NoCall
    /\ IdleStore
    /\ IdleMonitor
    /\ IdleWorkers
    /\ IdlePipeline
    /\ call_in = [called |-> FALSE, fn |-> "process_item", now |-> 1,
                  calls |-> 0]
    /\ call_out = NotCalled
    /\ th = [t \in Threads |-> TaskThreadIdle]
    /\ client_lock = NoLockHolder

NextTask ==
    \/ TimePasses
    \/ \E item \in TaskItems, meas \in TaskMeasurements :
            TaskProcessItem(item, meas)
    \/ \E t \in Threads : RunTaskStart(t)
    \/ \E t \in Threads, raised \in BOOLEAN, prepared \in PreparedLists :
            RunTaskDownload(t, raised, prepared)
    \/ \E t \in Threads, dest \in Sinks :
            \E env \in UploadEnvs(dest) : RunTaskUpload(t, env)
    \/ \E t \in Threads, ms \in [1 .. Len(sq_queue) -> TaskMeasurements] :
            RunTaskFinish(t, ms)

SpecTask == InitTask /\ [][NextTask]_vars

(***************************************************************************)
(* RSSManager._poll_feed (src/bot/rss.py): one feed polled again and again *)
(***************************************************************************)
\* datetime values are numbers; None is the empty sequence, a value t is
\* <<t>>.
NoTime == << >>

\* Entries of the polled feed: one published at time 2 with a magnet link,
\* one without a date with a .torrent link, one with no torrent link.
Entry1 ==
    [id |-> "e1", link |-> Url("magnet:", "", TRUE),
     enclosure |-> NoEnclosure, links |-> NoUrl, published |-> <<MaxPolls - 1>>]
Entry2 ==
    [id |-> "e2", link |-> Url("https:", ".torrent", FALSE),
     enclosure |-> NoEnclosure, links |-> NoUrl, published |-> NoTime]
Entry3 ==
    [id |-> "e3", link |-> Url("https:", "", FALSE),
     enclosure |-> NoEnclosure, links |-> NoUrl, published |-> NoTime]

\* parsed.entries at a poll.
RssListings ==
    {<< >>, <<Entry1>>, <<Entry2>>, <<Entry3, Entry1>>,
     <<Entry2, Entry1>>, <<Entry1, Entry2, Entry3>>}

\* hashlib.md5(entry_guid.encode()).hexdigest() of
\* entry.get("id") or entry.get("link") or torrent_url
entry_hash(entry) == <<"md5", entry.id>>

\* if len(feed["seen_guids"]) > 1000: keep the last 1000
SeenGuidsKept == 1000
keep_last(seq, n) ==
    IF Len(seq) > n THEN SubSeq(seq, Len(seq) - n + 1, Len(seq)) ELSE seq

InSeq(x, seq) == \E i \in 1 .. Len(seq) : seq[i] = x

\* The for loop of _poll_feed from entry i on.  last_check is the value
\* read before the loop.  acc: the seen_guids list, new_items, and the
\* entries for which a backend accepted the add call.
RECURSIVE poll_feed_loop(_, _, _, _, _, _)
poll_feed_loop(entries, i, feed, last_check, env, acc) ==
    IF i > Len(entries) THEN acc
    ELSE LET entry == entries[i]
             torrent_url == extract_torrent_url(entry)
             h == entry_hash(entry)
             seen == [acc EXCEPT !.seen_guids = Append(@, h)]
             added == add_to_service(
                          selected_service(feed, torrent_url, env),
                          torrent_url, env)
             accepted == IF added.backend_call # << >>
                         THEN [acc EXCEPT !.accepted = Append(@, h)]
                         ELSE acc
         IN  IF torrent_url = NoUrl
             THEN poll_feed_loop(entries, i + 1, feed, last_check, env, acc)
             ELSE IF InSeq(h, acc.seen_guids)
             THEN poll_feed_loop(entries, i + 1, feed, last_check, env, acc)
             ELSE IF last_check = NoTime
             THEN poll_feed_loop(entries, i + 1, feed, last_check, env, seen)
             ELSE IF /\ entry.published # NoTime
                     /\ entry.published[1] <= last_check[1]
             THEN poll_feed_loop(entries, i + 1, feed, last_check, env, seen)
             ELSE IF added.returned
             THEN poll_feed_loop(entries, i + 1, feed, last_check, env,
                    [accepted EXCEPT !.seen_guids = Append(@, h),
                                     !.new_items = @ + 1])
             ELSE poll_feed_loop(entries, i + 1, feed, last_check, env,
                                 accepted)

\* RSSManager._poll_feed on the feed dict: no entries, no change; else the
\* loop, then last_check and the cut of seen_guids.
poll_feed(feed, entries, now, env) ==
    IF entries = << >>
    THEN [feed |-> feed, new_items |-> 0, accepted |-> << >>]
    ELSE LET res == poll_feed_loop(entries, 1, feed, feed.last_check, env,
                        [seen_guids |-> feed.seen_guids, new_items |-> 0,
                         accepted |-> << >>])
         IN  [feed |-> [feed EXCEPT
                          !.seen_guids = keep_last(res.seen_guids,
                                                   SeenGuidsKept),
                          !.last_check = <<now>>],
              new_items |-> res.new_items, accepted |-> res.accepted]

RECURSIVE count_adds(_, _, _)
count_adds(added, accepted, i) ==
    IF i > Len(accepted) THEN added
    ELSE count_adds(dict_set(added, accepted[i],
                             dict_count(added, accepted[i]) + 1),
                    accepted, i + 1)

\* One cycle of poll_feeds for the feed, POLL_INTERVAL after the one before:
\* _poll_feed, then save_rss_feeds of the updated feed dict.
PollFeed(entries, env) ==
    LET res == poll_feed(rss_feed, entries, rss_now, env)
    IN  /\ rss_feed # NoFeed
        /\ rss_now <= MaxPolls
        /\ rss_feed' = res.feed
        /\ rss_added' = count_adds(rss_added, res.accepted, 1)
        /\ rss_now' = rss_now + 1
        /\ UNCHANGED <<qvars, stvars, mvars, wvars, pvars, xvars, redis_rss,
                       json_rss>>

\* add_feed: last_check None, seen_guids empty.
InitRss ==
    /\ sq_queue = << >>
    /\ sq_last = NoCall
    /\ IdleStore
    /\ IdleMonitor
    /\ IdleWorkers
    /\ IdlePipeline
    /\ IdleCalls
    /\ rss_feed \in [url : {"feed"}, service : {"rd", "sb", None},
                     private : BOOLEAN, last_check : {NoTime},
                     seen_guids : {<< >>}]
    /\ rss_added = {}
    /\ rss_now = 1
    /\ IdleRssItems

NextRss == \E entries \in RssListings, env \in RssEnvs : PollFeed(entries, env)

SpecRss == InitRss /\ [][NextRss]_vars

(***************************************************************************)
(* RSS item status in RedisState and JsonFileState (src/bot/state.py)      *)
(*                                                                         *)
(* Strings that are joined into Redis keys are sequences of pieces, so     *)
(* that f"rss:item:{feed_url}:{item_id}" is the concatenation the code     *)
(* builds.                                                                 *)
(***************************************************************************)
RssFeedUrls == {<<"u">>, <<"u", ":", "v">>}
RssItemIds == {<<"i">>, <<"v", ":", "i">>}

\* The status values add_rss_item_status is given: the StateManager
\* interface names added, downloading, downloaded, uploading, uploaded and
\* failed.
RssStatuses == {"added", "uploaded", "failed"}

\* The list RedisState.add_rss_item_status walks to take the key out of the
\* sets of the other statuses.
RedisIndexedStatuses ==
    {"added", "downloading", "downloaded", "uploading", "uploaded",
     "download_failed", "upload_failed"}

rss_item_key(feed_url, item_id) == <<"rss:item:">> \o feed_url \o <<":">> \o item_id

rss_item_data(feed_url, item_id, status) ==
    [feed_url |-> feed_url, item_id |-> item_id, title |-> "title",
     status |-> status]

smembers(sets, name) ==
    IF name \in dict_keys(sets) THEN dict_get(sets, name) ELSE {}

\* RedisState.add_rss_item_status: SET of the item, SADD to the set of the
\* status, SREM from the sets of the other statuses of the list.
redis_add_rss_item_status(r, feed_url, item_id, status) ==
    LET key == rss_item_key(feed_url, item_id)
        sadd == dict_set(r.status, status,
                         smembers(r.status, status) \cup {key})
        srem == {<<p[1], IF p[1] \in RedisIndexedStatuses /\ p[1] # status
                         THEN p[2] \ {key} ELSE p[2]>> : p \in sadd}
    IN  [items |-> dict_set(r.items, key,
                            rss_item_data(feed_url, item_id, status)),
         status |-> srem]

\* RedisState.list_rss_items_by_status: the values of the keys in the set.
redis_list_rss_items_by_status(r, status) ==
    {dict_get(r.items, key) :
        key \in {k \in smembers(r.status, status) : k \in dict_keys(r.items)}}

\* JsonFileState.add_rss_item_status: rss_items[feed_url][item_id] = data.
json_add_rss_item_status(items, feed_url, item_id, status) ==
    LET feed_items == IF feed_url \in dict_keys(items)
                      THEN dict_get(items, feed_url) ELSE {}
    IN  dict_set(items, feed_url,
                 dict_set(feed_items, item_id,
                          rss_item_data(feed_url, item_id, status)))

\* JsonFileState.list_rss_items_by_status: scan of every feed's items.
json_list_rss_items_by_status(items, status) ==
    {q[2] : q \in {q \in UNION {p[2] : p \in items} : q[2].status = status}}

\* The same add_rss_item_status call on a RedisState and on a JsonFileState.
AddRssItemStatus(feed_url, item_id, status) ==
    /\ redis_rss' = redis_add_rss_item_status(redis_rss, feed_url, item_id,
                                              status)
    /\ json_rss' = json_add_rss_item_status(json_rss, feed_url, item_id,
                                            status)
    /\ UNCHANGED <<qvars, stvars, mvars, wvars, pvars, xvars, rss_feed,
                   rss_added, rss_now>>

InitRssItems ==
    /\ sq_queue = << >>
    /\ sq_last = NoCall
    /\ IdleStore
    /\ IdleMonitor
    /\ IdleWorkers
    /\ IdlePipeline
    /\ IdleCalls
    /\ IdleRss

NextRssItems ==
    \E feed_url \in RssFeedUrls, item_id \in RssItemIds,
       status \in RssStatuses : AddRssItemStatus(feed_url, item_id, status)

SpecRssItems == InitRssItems /\ [][NextRssItems]_vars

(***************************************************************************)
(* The upload ledger with its metadata (src/bot/state.py): one payload     *)
(* dict per file hash, in which the sink flags, the keys of meta and "ts"  *)
(* live side by side.  RedisState keeps it as JSON under upload:<hash>,    *)
(* JsonFileState as data["uploads"][hash].                                 *)
(***************************************************************************)
\* meta arguments: no key, or one key (a name of the caller's choice or a
\* word that is also a sink name) with a true or false value.
MetaKeys == {"name"} \cup Sinks
Metas == {{}} \cup {{<<k, v>>} : k \in MetaKeys, v \in BOOLEAN}

\* payload.update(meta)
dict_update(d, other) == {p \in d : p[1] \notin dict_keys(other)} \cup other

\* bool(payload.get(dest))
payload_flag(payload, dest) ==
    dest \in dict_keys(payload) /\ dict_get(payload, dest) = TRUE

\* mark_uploaded on the payload of one hash.
mark_payload(payload, dest, meta, now) ==
    dict_set(dict_set(dict_update(payload, meta), dest, TRUE), "ts", now)

\* json.dumps / json.loads of a payload: keys and values come back as they
\* went in (string keys, booleans, an integer).
json_dumps(payload) == <<"json", payload>>
json_loads(text) == text[2]

\* RedisState.is_uploaded / mark_uploaded on the keys upload:<hash>.
redis_is_uploaded(r, file_hash, dest) ==
    /\ file_hash \in dict_keys(r)
    /\ payload_flag(json_loads(dict_get(r, file_hash)), dest)

redis_mark_uploaded(r, file_hash, dest, meta, now) ==
    LET payload == IF file_hash \in dict_keys(r)
                   THEN json_loads(dict_get(r, file_hash)) ELSE {}
    IN  dict_set(r, file_hash,
                 json_dumps(mark_payload(payload, dest, meta, now)))

\* JsonFileState.is_uploaded / mark_uploaded on data["uploads"].
json_is_uploaded(uploads, file_hash, dest) ==
    /\ file_hash \in dict_keys(uploads)
    /\ payload_flag(dict_get(uploads, file_hash), dest)

json_mark_uploaded(uploads, file_hash, dest, meta, now) ==
    LET entry == IF file_hash \in dict_keys(uploads)
                 THEN dict_get(uploads, file_hash) ELSE {}
    IN  dict_set(uploads, file_hash, mark_payload(entry, dest, meta, now))

\* One mark_uploaded call, made on a RedisState and on a JsonFileState that
\* have seen the same calls before.
MarkUploaded(file_hash, dest, meta) ==
    /\ call_in.fn = "mark_uploaded"
    /\ call_in.now <= MaxMarks
    /\ call_in' = [call_in EXCEPT
                     !.now = @ + 1,
                     !.redis = redis_mark_uploaded(@, file_hash, dest, meta,
                                                   call_in.now),
                     !.json = json_mark_uploaded(@, file_hash, dest, meta,
                                                 call_in.now)]
    /\ call_out' = [called |-> TRUE, file_hash |-> file_hash, dest |-> dest,
                    meta |-> meta, redis_before |-> call_in.redis,
                    json_before |-> call_in.json]
    /\ UNCHANGED <<qvars, stvars, mvars, wvars, pvars, th, client_lock,
                   rvars>>

InitLedger ==
    /\ sq_queue = << >>
    /\ sq_last = NoCall
    /\ IdleStore
    /\ IdleMonitor
    /\ IdleWorkers
    /\ IdlePipeline
    /\ IdleRss
    /\ call_in = [called |-> FALSE, fn |-> "mark_uploaded", now |-> 1,
                  redis |-> {}, json |-> {}]
    /\ call_out = NotCalled
    /\ th = [t \in Threads |-> ThreadIdle]
    /\ client_lock = NoLockHolder

NextLedger ==
    \E file_hash \in FileHashes, dest \in Sinks, meta \in Metas :
        MarkUploaded(file_hash, dest, meta)

SpecLedger == InitLedger /\ [][NextLedger]_vars

(***************************************************************************)
(* get_telethon_uploader (src/bot/telethon_uploader.py): the lazily built  *)
(* module global _telethon_uploader, read and written by the executor's    *)
(* threads without a lock.  call_in holds the module global and the        *)
(* instances TelethonUploader() has built; an instance is named by the     *)
(* thread and the call that built it; None is the empty tuple.             *)
(***************************************************************************)
NoUploader == << >>

UploaderThreadIdle == [pc |-> "idle", calls |-> 0, result |-> NoUploader]

\* `if _telethon_uploader is None:` with Telethon available and the
\* credentials set: the thread goes on to build an instance, or to return
\* the global.
GetUploaderTest(t) ==
    /\ call_in.fn = "get_telethon_uploader"
    /\ th[t].pc = "idle"
    /\ th[t].calls < MaxUploads
    /\ th' = [th EXCEPT ![t].calls = @ + 1,
                        ![t].pc = IF call_in.uploader = NoUploader
                                  THEN "construct" ELSE "return"]
    /\ UNCHANGED <<qvars, stvars, mvars, wvars, pvars, call_in, call_out,
                   client_lock, rvars>>

\* `_telethon_uploader = TelethonUploader()`: a new instance is bound to
\* the global, or the constructor raises and None is returned.
GetUploaderConstruct(t, raised) ==
    /\ th[t].pc = "construct"
    /\ IF raised
       THEN /\ th' = [th EXCEPT ![t].pc = "idle", ![t].result = NoUploader]
            /\ UNCHANGED call_in
       ELSE /\ th' = [th EXCEPT ![t].pc = "return"]
            /\ call_in' = [call_in EXCEPT
                             !.uploader = <<t, th[t].calls>>,
                             !.constructed = @ \cup {<<t, th[t].calls>>}]
    /\ UNCHANGED <<qvars, stvars, mvars, wvars, pvars, call_out, client_lock,
                   rvars>>

\* `return _telethon_uploader`
GetUploaderReturn(t) ==
    /\ th[t].pc = "return"
    /\ th' = [th EXCEPT ![t].pc = "idle", ![t].result = call_in.uploader]
    /\ UNCHANGED <<qvars, stvars, mvars, wvars, pvars, call_in, call_out,
                   client_lock, rvars>>

InitUploader ==
    /\ sq_queue = << >>
    /\ sq_last = NoCall
    /\ IdleStore
    /\ IdleMonitor
    /\ IdleWorkers
    /\ IdlePipeline
    /\ IdleRss
    /\ call_in = [called |-> FALSE, fn |-> "get_telethon_uploader",
                  uploader |-> NoUploader, constructed |-> {}]
    /\ call_out = NotCalled
    /\ th = [t \in Threads |-> UploaderThreadIdle]
    /\ client_lock = NoLockHolder

NextUploader ==
    \E t \in Threads :
        \/ GetUploaderTest(t)
        \/ \E raised \in BOOLEAN : GetUploaderConstruct(t, raised)
        \/ GetUploaderReturn(t)

SpecUploader == InitUploader /\ [][NextUploader]_vars

(***************************************************************************)
(* Lock (src/bot/storage_queue.py, src/bot/queue.py): two Lock objects     *)
(* made with each name.  With REDIS_URL set the lock is the Redis key  *)
(* of that name, set with NX and an expiry; without it each object has a   *)
(* threading.Lock of its own.  call_in holds the configuration, the Redis  *)
(* key, each object's _local and the objects whose acquire returned True   *)
(* and that have not released since.                                       *)
(***************************************************************************)
LockNames == {"t", "packager:lock"}

LockObjects == {"lock1", "lock2"}

\* The objects made with name n whose acquire returned True and that have
\* not released since.
lock_holders(c, n) == {o \in LockObjects : <<n, o>> \in c.holders}

\* Lock.acquire: SET name now NX EX timeout, or _local.acquire(blocking=False)
lock_acquire(c, n, o) ==
    IF c.redis_url
    THEN [ok |-> ~c.key[n], key |-> [c.key EXCEPT ![n] = TRUE],
          local |-> c.local]
    ELSE [ok |-> ~c.local[n][o], key |-> c.key,
          local |-> [c.local EXCEPT ![n][o] = TRUE]]

\* Lock.release: DEL name, or _local.release() (an error is passed over).
lock_release(c, n, o) ==
    IF c.redis_url
    THEN [key |-> [c.key EXCEPT ![n] = FALSE], local |-> c.local]
    ELSE [key |-> c.key, local |-> [c.local EXCEPT ![n][o] = FALSE]]

LockAcquire(n, o) ==
    LET res == lock_acquire(call_in, n, o)
    IN  /\ call_in.fn = "Lock"
        /\ <<n, o>> \notin call_in.holders
        /\ call_in' = [call_in EXCEPT
                         !.key = res.key, !.local = res.local,
                         !.holders = IF res.ok THEN @ \cup {<<n, o>>} ELSE @]
        /\ call_out' = [called |-> TRUE, op |-> "acquire", name |-> n,
                        object |-> o, ok |-> res.ok,
                        was_free |-> lock_holders(call_in, n) = {}]
        /\ UNCHANGED <<qvars, stvars, mvars, wvars, pvars, th, client_lock,
                       rvars>>

\* The release that matches a successful acquire.
LockRelease(n, o) ==
    LET res == lock_release(call_in, n, o)
    IN  /\ call_in.fn = "Lock"
        /\ <<n, o>> \in call_in.holders
        /\ call_in' = [call_in EXCEPT
                         !.key = res.key, !.local = res.local,
                         !.holders = @ \ {<<n, o>>}]
        /\ call_out' = [called |-> TRUE, op |-> "release", name |-> n,
                        object |-> o, ok |-> TRUE, was_free |-> FALSE]
        /\ UNCHANGED <<qvars, stvars, mvars, wvars, pvars, th, client_lock,
                       rvars>>

\* `timeout` seconds after the SET the key expires in Redis.
LockKeyExpires(n) ==
    /\ call_in.fn = "Lock"
    /\ call_in.redis_url
    /\ call_in.key[n]
    /\ call_in' = [call_in EXCEPT !.key[n] = FALSE]
    /\ call_out' = [called |-> TRUE, op |-> "expire", name |-> n,
                    object |-> "redis", ok |-> TRUE, was_free |-> FALSE]
    /\ UNCHANGED <<qvars, stvars, mvars, wvars, pvars, th, client_lock,
                   rvars>>

InitLock ==
    /\ sq_queue = << >>
    /\ sq_last = NoCall
    /\ IdleStore
    /\ IdleMonitor
    /\ IdleWorkers
    /\ IdlePipeline
    /\ IdleRss
    /\ call_in \in [called : {FALSE}, fn : {"Lock"}, redis_url : BOOLEAN,
                    key : {[n \in LockNames |-> FALSE]},
                    local : {[n \in LockNames |->
                                [o \in LockObjects |-> FALSE]]},
                    holders : {{}}]
    /\ call_out = NotCalled
    /\ th = [t \in Threads |-> ThreadIdle]
    /\ client_lock = NoLockHolder

NextLock ==
    \/ \E n \in LockNames, o \in LockObjects : LockAcquire(n, o)
    \/ \E n \in LockNames, o \in LockObjects : LockRelease(n, o)
    \/ \E n \in LockNames : LockKeyExpires(n)

SpecLock == InitLock /\ [][NextLock]_vars

InitQueue ==
    /\ IdleRss
    /\ sq_queue = << >>
    /\ sq_last = NoCall
    /\ IdleStore
    /\ IdleMonitor
    /\ IdleWorkers
    /\ IdlePipeline
    /\ IdleCalls

Enqueue(item, meas) ==
    /\ Len(sq_queue) < MaxQueue
    /\ UNCHANGED <<stvars, mvars, wvars, pvars, xvars, rvars>>
    /\ sq_queue' = enqueue_queue(sq_queue, item, meas)
    /\ sq_last' = [op |-> "enqueue", item |-> item, meas |-> meas,
                   before |-> sq_queue,
                   ret |-> enqueue_ret(sq_queue, item, meas)]

Dequeue(ms) ==
    /\ UNCHANGED <<stvars, mvars, wvars, pvars, xvars, rvars>>
    /\ sq_queue' = dequeue_queue(sq_queue, ms)
    /\ sq_last' = [op |-> "dequeue", ms |-> ms, before |-> sq_queue,
                   ret |-> dequeue_ret(sq_queue, ms)]

NextQueue ==
    \/ \E item \in QueueItems, meas \in Measurements : Enqueue(item, meas)
    \/ \E ms \in [1 .. Len(sq_queue) -> Measurements] : Dequeue(ms)

SpecQueue == InitQueue /\ [][NextQueue]_vars

\* C5: an item for which the measured free space does not exceed
\* min_free + item.size at enqueue time is appended and enqueue returns True
\* (queued); a dequeue call returns an item only when the has_space check made
\* for that item's size in that call succeeded.
C5_QueuedUntilSpace ==
    /\ (sq_last.op = "enqueue" /\ sq_last.meas.ok
            /\ sq_last.meas.free <= min_free_bytes + sq_last.item.size)
        => (sq_last.ret = TRUE
            /\ sq_queue = Append(sq_last.before, sq_last.item))
    /\ (sq_last.op = "dequeue" /\ sq_last.ret # NoneItem)
        => \E i \in 1 .. Len(sq_last.before) :
              /\ sq_last.before[i] = sq_last.ret
              /\ (~sq_last.ms[i].ok
                    \/ sq_last.ms[i].free > min_free_bytes + sq_last.ret.size)
              /\ sq_queue = RemoveAt(sq_last.before, i)

\* An item that had to wait behind an item that still does not fit is handed
\* out by dequeue after a measured (not failed) space check succeeded.
C5_Witness ==
    /\ sq_last.op = "dequeue"
    /\ Len(sq_last.before) = 2
    /\ sq_last.ret = sq_last.before[2]
    /\ sq_last.ret # sq_last.before[1]
    /\ sq_last.ms[2].ok

FitSet(q, ms) == {i \in 1 .. Len(q) : has_space(ms[i], q[i].size)}
MinOf(S) == CHOOSE i \in S : \A j \in S : i <= j

\* C6: dequeue removes and returns the first pending item, in enqueue order,
\* whose has_space check holds, keeps all other items in their order, and
\* returns None with the list unchanged when the list is empty or nothing fits.
C6_DequeueFirstFit ==
    sq_last.op = "dequeue" =>
        LET q == sq_last.before
            fit == FitSet(q, sq_last.ms)
        IN  IF fit = {}
            THEN sq_last.ret = NoneItem /\ sq_queue = q
            ELSE /\ sq_last.ret = q[MinOf(fit)]
                 /\ sq_queue = SubSeq(q, 1, MinOf(fit) - 1)
                                 \o SubSeq(q, MinOf(fit) + 1, Len(q))

\* dequeue skipped a head item that does not fit and returned the second one.
C6_Witness ==
    /\ sq_last.op = "dequeue"
    /\ Len(sq_last.before) = 2
    /\ ~has_space(sq_last.ms[1], sq_last.before[1].size)
    /\ sq_last.ret = sq_last.before[2]
    /\ sq_queue = <<sq_last.before[1]>>

(***************************************************************************)
(* Claims about Monitor.check_seedbox (SpecSeedbox)                        *)
(***************************************************************************)
CallsOfKey(calls, k) == {j \in 1 .. Len(calls) : calls[j].key = k}

C1_NoResubmitAfterMarker ==
    [][mon_last'.op = "check_seedbox"
          => \A j \in 1 .. Len(mon_last'.calls) :
                mon_last'.calls[j].key \notin ever_marked]_vars

\* C9: the dest passed to process_item for a completed torrent is the sink
\* recorded by the acquisition command for that torrent, and 'telegram' only
\* when no acquisition command recorded one.
C9_IntentSinkPassed ==
    mon_last.op = "check_seedbox" =>
        \A j \in 1 .. Len(mon_last.calls) :
            LET h == mon_last.calls[j].key[3]
                want == dict_get(acquired, <<"sb", h>>)
            IN  mon_last.calls[j].dest
                    = IF want = None THEN "telegram" ELSE want

(***************************************************************************)
(* Claims about Monitor.check_realdebrid (SpecRealDebrid)                  *)
(***************************************************************************)
\* C8: for every listed torrent in status 'downloaded' whose marker rd_<id>
\* was not set when the cycle started and that the cycle reached with its
\* links in hand, the cycle calls process_item once per link, in link order,
\* with the download url and filename Real-Debrid resolves the link to and
\* the torrent's sink, and the marker rd_<id> is set afterwards.
C8_ResolveSubmitThenMark ==
    mon_last.op = "check_realdebrid" =>
        \A i \in 1 .. Len(mon_last.torrents) :
            LET t == mon_last.torrents[i]
                key == <<"rd", "_", t.id>>
                mine == SelectSeq(mon_last.calls, LAMBDA c : c.key = key)
            IN  (/\ t.status = "downloaded"
                 /\ key \notin mon_last.before
                 /\ (mon_last.aborted_at = 0 \/ i < mon_last.aborted_at))
                => /\ Len(mine) = Len(t.links)
                   /\ \A j \in 1 .. Len(mine) :
                         /\ mine[j].url = rd_api_unrestrict(t.links[j]).download
                         /\ mine[j].name
                               = rd_api_unrestrict(t.links[j]).filename
                   /\ key \in MonitorView.processed

(***************************************************************************)
(* Claims about concurrent Monitor workers (SpecWorkers)                   *)
(***************************************************************************)
\* C2: with two workers polling the same backend against one shared Redis
\* store, every completed torrent is submitted to process_item by at most
\* one of the workers, under every interleaving of their steps.
C2_AtMostOneWorkerSubmits ==
    \A h \in Hashes : Cardinality(submitted_by[h]) <= 1

\* C3: a completed torrent is never both marked processed and undelivered
\* with no transfer of it in flight: when the worker running its transfer is
\* killed before the transfer finished, the marker sb_<hash> is not set.
C3_KilledTransferNotMarked ==
    \A h \in Hashes :
        <<"sb", "_", h>> \in persisted.processed
            => \/ h \in wk_delivered
               \/ \E w \in Workers : h \in wk[w].tasks

(***************************************************************************)
(* Claims about the Downloader pipeline (SpecPipeline)                     *)
(***************************************************************************)
\* C4: across any sequence of transfers a file with content hash h is
\* uploaded to sink s at most once.
C4_DeliveredAtMostOncePerSink ==
    \A p \in deliveries : p[2] <= 1

\* C7: every run of _run_task that ends, however it ends, has executed
\* _process_queue.
C7_DrainAfterEveryRun ==
    run_last.op = "_run_task" => run_last.process_queue

(***************************************************************************)
(* Claims about backend selection (SpecRouter)                             *)
(***************************************************************************)
\* The result of the cache check for a candidate: "true" when Real-Debrid is
\* configured, the torrent hash can be obtained and Real-Debrid reports the
\* torrent cached; "false" when it reports it not cached; "error" otherwise.
CacheResult(u, env) ==
    IF \/ env.rd_client = None
       \/ (is_magnet(u) /\ ~u.btih)
       \/ (~is_magnet(u) /\ ~env.fetch_ok)
       \/ env.cache = "error"
    THEN "error"
    ELSE IF env.cache = "cached" THEN "true" ELSE "false"

Routed == call_out.called /\ call_out.torrent_url # NoUrl
Forced == call_in.feed.service \in {"rd", "sb"}

\* C11: the selected backend is the function of (forced backend,
\* torrent-like, private flag, cache result) given by the routing table:
\* forced -> the forced backend; else torrent-like and private -> sb; else
\* torrent-like and cache result true -> rd; in every other case -> sb.
C11_MatchesRoutingTable ==
    Routed =>
        LET u == call_out.torrent_url
        IN  call_out.selected =
              IF Forced THEN call_in.feed.service
              ELSE IF torrent_like(u) /\ call_in.feed.private THEN "sb"
              ELSE IF torrent_like(u)
                      /\ CacheResult(u, call_in.env) = "true" THEN "rd"
              ELSE "sb"

\* C12: when the feed forces a backend (rd or sb), that backend is selected
\* for every private flag, link kind and cache result.
C12_ForcedBackendWins ==
    (Routed /\ Forced) => call_out.selected = call_in.feed.service

\* A private feed forced to rd, with a torrent Real-Debrid does not have.
C12_Witness ==
    /\ Routed
    /\ call_in.feed.service = "rd"
    /\ call_in.feed.private
    /\ CacheResult(call_out.torrent_url, call_in.env) = "false"
    /\ call_out.selected = "rd"

\* C13: for a torrent-like, non-private candidate without a forced backend,
\* every failure of the cache check selects sb, and rd is selected only when
\* the check completed and reported the torrent cached.
C13_CacheFailureSelectsSb ==
    (Routed /\ ~Forced /\ ~call_in.feed.private
        /\ torrent_like(call_out.torrent_url))
    => /\ CacheResult(call_out.torrent_url, call_in.env) = "error"
            => call_out.selected = "sb"
       /\ call_out.selected = "rd"
            => CacheResult(call_out.torrent_url, call_in.env) = "true"

\* A .torrent link whose download fails although Real-Debrid is configured
\* and has the torrent cached: sb is selected.
C13_Witness ==
    /\ Routed /\ ~Forced /\ ~call_in.feed.private
    /\ call_out.torrent_url = Url("https:", ".torrent", FALSE)
    /\ call_in.env.rd_client # None
    /\ ~call_in.env.fetch_ok
    /\ call_in.env.cache = "cached"
    /\ call_out.selected = "sb"

SplitDone ==
    /\ call_in.fn = "_split_binary"
    /\ call_in.called
    /\ call_in.size >= 1

CeilDiv(a, b) == (a + b - 1) \div b

RECURSIVE Concat(_)
Concat(seqs) ==
    IF seqs = << >> THEN << >> ELSE Head(seqs) \o Concat(Tail(seqs))

PartData == [i \in 1..Len(call_out.parts) |-> call_out.parts[i].data]

RECURSIVE DigitsValue(_)
DigitsValue(d) ==
    IF d = << >> THEN 0
    ELSE 10 * DigitsValue(SubSeq(d, 1, Len(d) - 1)) + d[Len(d)]

\* C15: binary splitting of a file of S >= 1 bytes with limit L >= 1 yields
\* exactly ceil(S / L) parts, and the parts concatenated in order are the
\* bytes of the file.
C15_PartCountAndRoundTrip ==
    SplitDone =>
        /\ Len(call_out.parts) = CeilDiv(call_in.size, call_in.chunk_size)
        /\ Concat(PartData) = file_bytes(call_in.size)

\* the 4.5 GB file with the 1.9 GB limit, split into three parts
C15_Witness ==
    /\ SplitDone
    /\ call_in.size = 45
    /\ call_in.chunk_size = 19
    /\ Len(call_out.parts) = 3
    /\ Concat(PartData) = file_bytes(45)

\* C16: every part except the last has exactly L bytes, the last has
\* S - (n-1)L bytes with 0 < last <= L, and the parts carry the ordinals
\* 001, 002, ... in order.
C16_PartSizesAndOrdinals ==
    SplitDone =>
        LET n == Len(call_out.parts)
            L == call_in.chunk_size
        IN  /\ n >= 1
            /\ \A i \in 1..(n - 1) : Len(call_out.parts[i].data) = L
            /\ Len(call_out.parts[n].data) = call_in.size - (n - 1) * L
            /\ Len(call_out.parts[n].data) > 0
            /\ Len(call_out.parts[n].data) <= L
            /\ \A i \in 1..n :
                 /\ Len(call_out.parts[i].ordinal) = 3
                 /\ DigitsValue(call_out.parts[i].ordinal) = i

\* 45 / 19 gives parts of 19, 19 and 7 named 001, 002, 003, read with a
\* buffer that does not divide the limit
C16_Witness ==
    /\ SplitDone
    /\ call_in.size = 45
    /\ call_in.chunk_size = 19
    /\ call_in.buffer_size = 3
    /\ [i \in 1..Len(call_out.parts) |-> Len(call_out.parts[i].data)]
         = <<19, 19, 7>>
    /\ [i \in 1..Len(call_out.parts) |-> call_out.parts[i].ordinal]
         = << <<0, 0, 1>>, <<0, 0, 2>>, <<0, 0, 3>> >>

\* ---- Telethon upload claims ----------------------------------------------
InSendFile == {t \in Threads : th[t].pc = "send_file"}

\* C17: at any time at most one executor thread is inside
\* client.send_file of the Telethon uploader.
C17_OneTelethonUploadAtATime == Cardinality(InSendFile) <= 1

\* one thread uploads while the other waits at `with _client_lock`
C17_Witness ==
    /\ th["th1"].pc = "send_file"
    /\ client_lock = "th1"
    /\ th["th2"].pc = "with_client_lock"

\* ---- upload sink claims --------------------------------------------------
TelegramDone == call_in.fn = "_upload_telegram" /\ call_in.called
GdriveDone == call_in.fn = "_upload_gdrive" /\ call_in.called

\* C18: on the messaging sink a file strictly below 50 MiB goes by the
\* direct bot-API path and a file at or above 50 MiB goes by the Telethon
\* path.
C18_ThresholdSelectsPath ==
    (TelegramDone /\ call_out.result.path \in {"bot_api", "telethon"}) =>
        /\ call_in.size < BotApiMaxSize => call_out.result.path = "bot_api"
        /\ call_in.size >= BotApiMaxSize => call_out.result.path = "telethon"

\* C19: a gdrive delivery with rclone installed runs the command exactly
\* once, and a run that exits nonzero or writes to stderr is reported as a
\* failed delivery.
C19_SyncOnceFailureOnExitOrStderr ==
    (GdriveDone /\ call_in.rclone_found) =>
        /\ call_out.result.invocations = 1
        /\ (~call_in.run_raises
              /\ (call_in.returncode # 0 \/ call_in.stderr # ""))
             => /\ call_out.result.report = "failed"
                /\ ~call_out.delivered

\* C20: after a delivery on either sink the ledger holds the mark of
\* (file hash, sink) added by mark_uploaded exactly when the delivery
\* succeeded, and is unchanged otherwise.
C20_LedgerUpdatedOnSuccessOnly ==
    (TelegramDone \/ GdriveDone) =>
        call_out.uploads =
            IF call_out.delivered
            THEN mark_uploaded(call_in.uploads, call_in.file_hash,
                               call_out.dest)
            ELSE call_in.uploads

\* C21: a file above the single-object limit of the messaging sink, with a
\* recipient and working uploads, is split and delivered (its parts in
\* ascending order), not left undelivered.
C21_OversizeSplitAndDelivered ==
    (/\ TelegramDone
     /\ call_in.updater /\ call_in.chat_id # None
     /\ call_in.telethon_configured /\ ~call_in.send_raises
     /\ call_in.size > MAX_TG_SIZE)
        => /\ call_out.result.path # "too_large"
           /\ call_out.delivered

\* ---- http download claims ------------------------------------------------
TransientFailure(e) ==
    \/ e.kind \in {"ConnectionError", "Timeout"}
    \/ e.kind = "HTTPError" /\ (e.status = 429 \/ e.status \div 100 = 5)

DownloadEnded == call_out.result \in {"returned", "raised"}

DownloadBounded ==
    call_in.fn = "_download_file" =>
        LET log == call_out.log
            n == Len(log)
        IN  /\ n <= 5
            /\ \A i \in 1..(n - 1) : TransientFailure(log[i])
            /\ call_out.result = "running" =>
                 n < 5 /\ (n > 0 => TransientFailure(log[n]))
            /\ call_out.result = "returned" <=>
                 (n > 0 /\ log[n].kind = "ok")
            /\ (n = 5 /\ log[n].kind # "ok") => call_out.result = "raised"

\* C22: a call of _download_file on an http(s) url makes at most 5 GET
\* attempts, goes to another attempt only after a 5xx / 429 / connection /
\* timeout failure, raises when the fifth attempt fails, and always ends
\* with a returned path or a raised error.
C22_BoundedRetryTerminates == []DownloadBounded /\ <>DownloadEnded

\* four transient failures, then the fifth GET fails and the call raises
C22_Witness ==
    /\ call_in.fn = "_download_file"
    /\ Len(call_out.log) = 5
    /\ call_out.log[5].kind = "Timeout"
    /\ call_out.result = "raised"

\* C27: when the free-space measurement fails, has_space returns True, so
\* enqueue returns False (process now) and the pending list is unchanged.
C27_MeasureFailureAdmits ==
    (sq_last.op = "enqueue" /\ ~sq_last.meas.ok) =>
        /\ has_space(sq_last.meas, sq_last.item.size)
        /\ sq_last.ret = FALSE
        /\ sq_queue = sq_last.before

\* an enqueue whose measurement failed, made while another item is pending
C27_Witness ==
    /\ sq_last.op = "enqueue"
    /\ ~sq_last.meas.ok
    /\ sq_last.ret = FALSE
    /\ Len(sq_last.before) = 1
    /\ sq_queue = sq_last.before

\* C28: a torrent listed with a state is treated as complete by a
\* check_seedbox cycle (submitted, when it is unmarked and has a base_path)
\* only if that state is 'seeding'; the size-equality test decides only for
\* a torrent listed without a state.
C28_StateDecidesCompletion ==
    mon_last.op = "check_seedbox" =>
        \A i \in 1 .. Len(mon_last.torrents) :
            LET t == mon_last.torrents[i]
                key == <<"sb", "_", t.hash>>
            IN  ("state" \in DOMAIN t /\ t.state # "seeding")
                    => CallsOfKey(mon_last.calls, key) = {}

\* ---- JsonFileState claims ------------------------------------------------
\* C24: after a write of JsonFileState (add_seen, set_job, add_processed,
\* set_intent, mark_uploaded) has returned, the matching read returns the
\* written value on the same instance and on a new instance built on the
\* same file afterwards.
C24_ReadBackAfterWrite ==
    call_out.called =>
        /\ state_reads_back(mon_data, call_out.write)
        /\ state_reads_back(json_load(persisted), call_out.write)
        /\ call_out.reloaded => state_reads_back(jobs_data, call_out.write)

\* a job written over a file that already held other keys, read by a new
\* instance that also still sees the older content
C24_Witness ==
    /\ call_out.called
    /\ call_out.reloaded
    /\ call_out.write.op = "set_job"
    /\ get_job(jobs_data, "j1") = call_out.write.value
    /\ get_intent(jobs_data, "h1") = "telegram"

\* ---- background job claims -----------------------------------------------
TerminalStatuses == {"done", "failed", "timeout", "error"}

\* C25: a job created by enqueue_ytdl reaches a persisted status among
\* done, failed, timeout, error: once its _run_ytdl call has ended, the
\* status stored for it is one of these.
C25_EndedJobHasTerminalStatus ==
    \A t \in Threads :
        th[t].pc = "ended" =>
            dict_get(JobsView.jobs, th[t].job) \in TerminalStatuses

StageRank(status) ==
    CASE status = "enqueued" -> 1
      [] status = "waiting (low disk)" -> 2
      [] status = "downloading" -> 3
      [] status = "packaging" -> 4
      [] status = "uploading" -> 5

C29_StatusOnlyMovesForward ==
    [][/\ \A k \in dict_keys(task_table) \cap dict_keys(task_table') :
             StageRank(dict_get(task_table', k))
                 >= StageRank(dict_get(task_table, k))
       /\ \A t \in Threads :
             th'[t].uploads > th[t].uploads
                 => th[t].pc = "upload" /\ th[t].packaged]_vars

\* C30: a run of _run_task that deleted the local files or produced the
\* 'Completed Transfer' report delivered every prepared file that was not
\* skipped.
C30_CompletedOnlyIfDelivered ==
    \A t \in Threads :
        (th[t].pc = "done" /\ (th[t].deleted \/ th[t].reported))
            => ~th[t].undelivered

(***************************************************************************)
(* Claims about the backlog, the monitor and the stores (C31 .. C40)       *)
(***************************************************************************)
\* C31: an item that _process_queue took out of the pending queue is handed
\* to the executor to be run like an admitted item; it is never dropped.
C31_DequeuedItemIsRun ==
    (run_last.op = "_run_task" /\ run_last.dequeued # NoneItem)
        => /\ ~run_last.raised
           /\ \E i \in 1 .. Len(active_tasks) :
                  active_tasks[i] = run_last.dequeued

\* C32: a cycle of check_realdebrid sets the marker rd_<id> only for a
\* torrent for each of whose links it called process_item.
C32_MarkedOnlyIfAllLinksSubmitted ==
    mon_last.op = "check_realdebrid" =>
        \A i \in 1 .. Len(mon_last.torrents) :
            LET t == mon_last.torrents[i]
                key == monitor_key("rd", t.id)
                mine == SelectSeq(mon_last.calls, LAMBDA c : c.key = key)
            IN  (key \in MonitorView.processed /\ key \notin mon_last.before)
                    => Len(mine) = Len(t.links)

\* C33: when a command handler has stored an intent through its own handle
\* from get_state(), the next get_intent of that key through the Monitor's
\* handle returns the stored sink, for RedisState and for JsonFileState.
C33_ReadAfterWriteAcrossHandles ==
    [][\A t \in RDIds :
         (/\ mon_last'.op \in {"rd_torrent_gdrive", "_on_rss_decision"}
          /\ dict_get(acquired', <<"rd", t>>) # dict_get(acquired, <<"rd", t>>))
            => get_intent(MonitorView', handler_key("rd", t))
                   = dict_get(acquired', <<"rd", t>>)]_vars

\* The ProcessedMarker, intent and job entries a state file holds.
StoredEntries(file) ==
    LET data == json_load(file)
    IN  {<<"processed", k>> : k \in data.processed}
            \cup {<<"intents", k>> : k \in dict_keys(data.intents)}
            \cup {<<"jobs", k>> : k \in dict_keys(data.jobs)}

\* C34: with several JsonFileState handles on one file, no write through a
\* handle removes an entry that is already in the file.
C34_WritesKeepOtherHandlesEntries ==
    [][store_kind = "json"
          => StoredEntries(persisted) \subseteq StoredEntries(persisted')]_vars

\* C35: over any number of poll cycles a backend accepts the add call for a
\* feed entry at most once, and an entry whose add call a backend accepted
\* is in the feed's seen_guids.
C35_EntryAddedAtMostOnce ==
    \A p \in rss_added :
        /\ p[2] <= 1
        /\ InSeq(p[1], rss_feed.seen_guids)

\* C36: in a cycle of check_realdebrid every listed torrent that is
\* 'downloaded', not yet marked and whose own info request succeeds is taken
\* up (each of its links is resolved for submission), whatever happens to
\* the other torrents of the listing.
C36_FailureDoesNotStopOtherItems ==
    mon_last.op = "check_realdebrid" =>
        \A i \in 1 .. Len(mon_last.torrents) :
            LET t == mon_last.torrents[i]
            IN  (/\ t.status = "downloaded"
                 /\ monitor_key("rd", t.id) \notin mon_last.before
                 /\ t.info_ok)
                => \A j \in 1 .. Len(t.links) :
                      \E k \in 1 .. Len(mon_last.tried) :
                          mon_last.tried[k].link = t.links[j]

\* C37: after any sequence of add_rss_item_status calls,
\* list_rss_items_by_status(s) returns from RedisState what it returns from
\* JsonFileState, namely the items whose current status is s, and no item is
\* listed under two statuses.
C37_StatusListingsAgree ==
    /\ \A s \in RssStatuses :
          redis_list_rss_items_by_status(redis_rss, s)
              = json_list_rss_items_by_status(json_rss, s)
    /\ \A s1, s2 \in RssStatuses :
          s1 # s2 =>
             \A d1 \in redis_list_rss_items_by_status(redis_rss, s1),
                d2 \in redis_list_rss_items_by_status(redis_rss, s2) :
                    <<d1.feed_url, d1.item_id>> # <<d2.feed_url, d2.item_id>>

\* C38: after mark_uploaded(h, s, meta), is_uploaded(h, s) is true and
\* is_uploaded of every other (hash, sink) pair is what it was before the
\* call, whatever meta is, in RedisState and in JsonFileState.
C38_MarkSetsOnlyItsPair ==
    (call_in.fn = "mark_uploaded" /\ call_out.called) =>
        /\ redis_is_uploaded(call_in.redis, call_out.file_hash, call_out.dest)
        /\ json_is_uploaded(call_in.json, call_out.file_hash, call_out.dest)
        /\ \A h \in FileHashes, s \in Sinks :
              <<h, s>> # <<call_out.file_hash, call_out.dest>>
                 => /\ redis_is_uploaded(call_in.redis, h, s)
                         = redis_is_uploaded(call_out.redis_before, h, s)
                    /\ json_is_uploaded(call_in.json, h, s)
                         = json_is_uploaded(call_out.json_before, h, s)

\* C39: however the threads' calls of get_telethon_uploader interleave, at
\* most one TelethonUploader is ever built and every caller that gets an
\* uploader gets that one.
C39_OneUploaderInstance ==
    call_in.fn = "get_telethon_uploader" =>
        /\ Cardinality(call_in.constructed) <= 1
        /\ \A t1, t2 \in Threads :
              (th[t1].result # NoUploader /\ th[t2].result # NoUploader)
                 => th[t1].result = th[t2].result

\* C40: an acquire made while nobody holds the lock of that name returns
\* True, and at no time do two Lock objects of the same name both hold the
\* lock (an acquire that returned True, not yet released).
C40_LockIsExclusivePerName ==
    call_in.fn = "Lock" =>
        /\ \A n \in LockNames : Cardinality(lock_holders(call_in, n)) <= 1
        /\ (call_out.called /\ call_out.op = "acquire" /\ call_out.was_free)
              => call_out.ok

====
